---- MODULE Spec2Model ----
(***************************************************************************)
(* A model of cascadia, a CSS selector compiler and matcher.               *)
(*                                                                         *)
(* Selector text is a sequence of one-character strings; the byte at Go    *)
(* index i of a text s is s[i+1].  The parser (parser struct: s, i) is     *)
(* modelled function by function; every parse function returns a record   *)
(* [err, i, val]: err is "" for a nil error, i is the parser position      *)
(* after the call and val is the value returned.  A read of p.s at an      *)
(* index outside 0..len(s)-1 is Go's run-time panic, err = PANIC.          *)
(***************************************************************************)
EXTENDS Integers, Sequences, FiniteSets, TLC

(***************************************************************************)
(* Text helpers                                                            *)
(***************************************************************************)
At(s, i) == s[i + 1]

Slice(s, lo, hi) == SubSeq(s, lo + 1, hi)

InRange(s, i) == i >= 0 /\ i < Len(s)

HasPrefixAt(s, i, pre) ==
    /\ i + Len(pre) <= Len(s)
    /\ \A k \in 1..Len(pre) : s[i + k] = pre[k]

\* v := e; rest
With(v, rest(_)) == rest(v)

\* r, err := e; if err != nil { return err }; rest
Try(r, rest(_)) == IF r.err # "" THEN r ELSE rest(r)

\* strings.Index(s[from:], sub): offset of the first occurrence, or -1
IndexFrom(s, from, sub) ==
    With({k \in 0..(Len(s) - from) : HasPrefixAt(s, from + k, sub)}, LAMBDA hits :
        IF hits = {} THEN -1 ELSE CHOOSE k \in hits : \A m \in hits : k <= m)

PANIC == "panic: index out of range"

Ok(i, v) == [err |-> "", i |-> i, val |-> v]

Fail(e, i) == [err |-> e, i |-> i, val |-> <<>>]

(***************************************************************************)
(* Character classes                                                       *)
(***************************************************************************)
Digits == <<"0", "1", "2", "3", "4", "5", "6", "7", "8", "9">>

LowerLetters == <<"a", "b", "c", "d", "e", "f", "g", "h", "i", "j", "k", "l", "m",
                  "n", "o", "p", "q", "r", "s", "t", "u", "v", "w", "x", "y", "z">>

UpperLetters == <<"A", "B", "C", "D", "E", "F", "G", "H", "I", "J", "K", "L", "M",
                  "N", "O", "P", "Q", "R", "S", "T", "U", "V", "W", "X", "Y", "Z">>

Range(f) == {f[k] : k \in DOMAIN f}

IndexIn(f, c) == CHOOSE k \in DOMAIN f : f[k] = c

isDigit(c) == c \in Range(Digits)

WhiteSpace == {" ", "\t", "\r", "\n", "\f"}

hexDigit(c) ==
    \/ isDigit(c)
    \/ c \in {"a", "b", "c", "d", "e", "f"}
    \/ c \in {"A", "B", "C", "D", "E", "F"}

nameStart(c) == c \in Range(LowerLetters) \/ c \in Range(UpperLetters) \/ c = "_"

nameChar(c) ==
    \/ c \in Range(LowerLetters) \/ c \in Range(UpperLetters) \/ c = "_"
    \/ c = "-" \/ isDigit(c)

toLowerChar(c) ==
    IF c \in Range(UpperLetters) THEN LowerLetters[IndexIn(UpperLetters, c)] ELSE c

toLowerASCII(s) == [k \in 1..Len(s) |-> toLowerChar(s[k])]

(***************************************************************************)
(* Escapes                                                                 *)
(***************************************************************************)
hexValue(c) ==
    IF isDigit(c) THEN IndexIn(Digits, c) - 1
    ELSE IF c \in Range(LowerLetters) THEN 9 + IndexIn(LowerLetters, c)
    ELSE 9 + IndexIn(UpperLetters, c)

RECURSIVE ParseUint16(_)
ParseUint16(ds) ==
    IF ds = <<>> THEN 0
    ELSE 16 * ParseUint16(SubSeq(ds, 1, Len(ds) - 1)) + hexValue(ds[Len(ds)])

\* The code points of the printable ASCII characters the model's texts use.
AsciiTable == <<
    <<32, " ">>, <<34, "\"">>, <<35, "#">>, <<39, "'">>, <<40, "(">>, <<41, ")">>,
    <<42, "*">>, <<43, "+">>, <<44, ",">>, <<45, "-">>, <<46, ".">>, <<47, "/">>,
    <<58, ":">>, <<61, "=">>, <<62, ">">>, <<91, "[">>, <<92, "\\">>, <<93, "]">>,
    <<95, "_">>, <<124, "|">>, <<126, "~">>, <<9, "\t">>, <<10, "\n">>,
    <<12, "\f">>, <<13, "\r">> >>

\* string(rune(v)): the character with code point v
runeString(v) ==
    IF v >= 48 /\ v <= 57 THEN Digits[v - 47]
    ELSE IF v >= 65 /\ v <= 90 THEN UpperLetters[v - 64]
    ELSE IF v >= 97 /\ v <= 122 THEN LowerLetters[v - 96]
    ELSE IF \E k \in DOMAIN AsciiTable : AsciiTable[k][1] = v
         THEN AsciiTable[CHOOSE k \in DOMAIN AsciiTable : AsciiTable[k][1] = v][2]
    ELSE IF (v >= 55296 /\ v <= 57343) \/ v > 1114111 THEN "U+FFFD"
    ELSE "U+" \o ToString(v)

RECURSIVE hexRunEnd(_, _, _)
hexRunEnd(s, i, limit) ==
    IF i < limit /\ i < Len(s) /\ hexDigit(At(s, i)) THEN hexRunEnd(s, i + 1, limit) ELSE i

parseEscape(s, pi) ==
    IF Len(s) < pi + 2 \/ At(s, pi) # "\\" THEN Fail("invalid escape sequence", pi)
    ELSE IF At(s, pi + 1) \in {"\r", "\n", "\f"}
    THEN Fail("escaped line ending outside string", pi)
    ELSE IF hexDigit(At(s, pi + 1))
    THEN With(hexRunEnd(s, pi + 1, pi + 6), LAMBDA i :
            Ok(IF Len(s) > i
               THEN IF s[i + 1] = "\r"
                    THEN IF Len(s) > i + 1 /\ s[i + 2] = "\n" THEN i + 2 ELSE i + 1
                    ELSE IF s[i + 1] \in {" ", "\t", "\n", "\f"} THEN i + 1 ELSE i
               ELSE i,
               <<runeString(ParseUint16(Slice(s, pi + 1, i)))>>))
    ELSE Ok(pi + 2, <<At(s, pi + 1)>>)

(***************************************************************************)
(* Names, identifiers, strings                                             *)
(***************************************************************************)
RECURSIVE nameRunEnd(_, _)
nameRunEnd(s, i) == IF i < Len(s) /\ nameChar(At(s, i)) THEN nameRunEnd(s, i + 1) ELSE i

RECURSIVE parseNameLoop(_, _, _, _)
parseNameLoop(s, pi, i, result) ==
    IF i < Len(s) /\ nameChar(At(s, i))
    THEN With(nameRunEnd(s, i), LAMBDA e :
            parseNameLoop(s, pi, e, result \o Slice(s, i, e)))
    ELSE IF i < Len(s) /\ s[i + 1] = "\\"
    THEN Try(parseEscape(s, i), LAMBDA r :
            parseNameLoop(s, pi, r.i, result \o r.val))
    ELSE IF result = <<>> THEN Fail("expected name, found EOF instead", pi)
    ELSE Ok(i, result)

parseName(s, pi) == parseNameLoop(s, pi, pi, <<>>)

parseIdentifier(s, pi) ==
    With(Len(s) > pi /\ s[pi + 1] = "-", LAMBDA startingDash :
    With(IF startingDash THEN pi + 1 ELSE pi, LAMBDA i :
        IF Len(s) <= i THEN Fail("expected identifier, found EOF instead", i)
        ELSE IF ~(nameStart(At(s, i)) \/ s[i + 1] = "\\")
        THEN Fail("expected identifier, found other character instead", i)
        ELSE Try(parseName(s, i), LAMBDA r :
                IF startingDash THEN Ok(r.i, <<"-">> \o r.val) ELSE r)))

RECURSIVE stringRunEnd(_, _, _)
stringRunEnd(s, i, quote) ==
    IF i < Len(s) /\ At(s, i) \notin {quote, "\\", "\r", "\n", "\f"}
    THEN stringRunEnd(s, i + 1, quote) ELSE i

RECURSIVE parseStringLoop(_, _, _, _)
parseStringLoop(s, i, quote, result) ==
    IF i >= Len(s) THEN Fail("EOF in string", i)
    ELSE IF s[i + 1] = "\\"
    THEN IF Len(s) > i + 1 /\ s[i + 2] \in {"\r", "\n", "\f"}
         THEN parseStringLoop(s,
                  IF s[i + 2] = "\r" /\ Len(s) > i + 2 /\ s[i + 3] = "\n"
                  THEN i + 3 ELSE i + 2,
                  quote, result)
         ELSE Try(parseEscape(s, i), LAMBDA r :
                 parseStringLoop(s, r.i, quote, result \o r.val))
    ELSE IF s[i + 1] = quote THEN Ok(i + 1, result)
    ELSE IF s[i + 1] \in {"\r", "\n", "\f"}
    THEN Fail("unexpected end of line in string", i)
    ELSE With(stringRunEnd(s, i, quote), LAMBDA e :
            parseStringLoop(s, e, quote, result \o Slice(s, i, e)))

parseString(s, pi) ==
    IF Len(s) < pi + 2 THEN Fail("expected string, found EOF instead", pi)
    ELSE parseStringLoop(s, pi + 1, At(s, pi), <<>>)

(***************************************************************************)
(* Whitespace, comments, parentheses                                       *)
(***************************************************************************)
RECURSIVE skipBlanks(_, _)
\* a loop that skips whitespace characters only
skipBlanks(s, i) == IF i < Len(s) /\ s[i + 1] \in WhiteSpace THEN skipBlanks(s, i + 1) ELSE i

RECURSIVE skipWhitespaceLoop(_, _)
skipWhitespaceLoop(s, i) ==
    IF i < Len(s)
    THEN IF s[i + 1] \in WhiteSpace THEN skipWhitespaceLoop(s, i + 1)
         ELSE IF s[i + 1] = "/" /\ HasPrefixAt(s, i, <<"/", "*">>)
         THEN With(IndexFrom(s, i + 2, <<"*", "/">>), LAMBDA end :
                 IF end # -1 THEN skipWhitespaceLoop(s, i + end + 4) ELSE i)
         ELSE i
    ELSE i

\* val is the boolean skipWhitespace returns
skipWhitespace(s, pi) ==
    With(skipWhitespaceLoop(s, pi), LAMBDA i : IF i > pi THEN Ok(i, TRUE) ELSE Ok(pi, FALSE))

consumeParenthesis(s, pi) ==
    IF pi < Len(s) /\ s[pi + 1] = "(" THEN Ok(skipWhitespace(s, pi + 1).i, TRUE)
    ELSE Ok(pi, FALSE)

\* consumeClosingParenthesis without `p.i = i` before `return false`
consumeClosingParenthesisKeepsPosition(s, pi) ==
    With(skipWhitespace(s, pi).i, LAMBDA i :
        IF i < Len(s) /\ s[i + 1] = ")" THEN Ok(i + 1, TRUE) ELSE Ok(i, FALSE))

consumeClosingParenthesis(s, pi) ==
    With(skipWhitespace(s, pi).i, LAMBDA i :
        IF i < Len(s) /\ s[i + 1] = ")" THEN Ok(i + 1, TRUE) ELSE Ok(pi, FALSE))

(***************************************************************************)
(* Regular expressions and integers                                        *)
(***************************************************************************)
RECURSIVE regexEnd(_, _, _)
\* the index of the first unmatched ')' or ']' at or after i, or Len(s)
regexEnd(s, i, open) ==
    IF i < Len(s)
    THEN IF At(s, i) \in {"(", "["} THEN regexEnd(s, i + 1, open + 1)
         ELSE IF At(s, i) \in {")", "]"}
         THEN IF open - 1 < 0 THEN i ELSE regexEnd(s, i + 1, open - 1)
         ELSE regexEnd(s, i + 1, open)
    ELSE i

RECURSIVE wellNested(_, _)
wellNested(src, stack) ==
    IF src = <<>> THEN stack = <<>>
    ELSE IF Head(src) \in {"(", "["} THEN wellNested(Tail(src), <<Head(src)>> \o stack)
    ELSE IF Head(src) = ")"
    THEN stack # <<>> /\ Head(stack) = "(" /\ wellNested(Tail(src), Tail(stack))
    ELSE IF Head(src) = "]"
    THEN stack # <<>> /\ Head(stack) = "[" /\ wellNested(Tail(src), Tail(stack))
    ELSE wellNested(Tail(src), stack)

\* regexp.Compile accepts src (library call: groups and classes closed in
\* order, no leading repetition operator, no trailing backslash)
regexpCompiles(src) ==
    /\ wellNested(src, <<>>)
    /\ src = <<>> \/ Head(src) \notin {"*", "+", "?"}
    /\ src = <<>> \/ src[Len(src)] # "\\"

parseRegex(s, pi) ==
    IF Len(s) < pi + 2 THEN Fail("expected regular expression, found EOF instead", pi)
    ELSE With(regexEnd(s, pi, 0), LAMBDA i :
            IF i >= Len(s) THEN Fail("EOF in regular expression", pi)
            ELSE With(Slice(s, pi, i), LAMBDA src :
                    IF regexpCompiles(src) THEN Ok(i, src)
                    ELSE Fail("error parsing regexp", i)))

RECURSIVE digitRunEnd(_, _)
digitRunEnd(s, i) == IF i < Len(s) /\ isDigit(At(s, i)) THEN digitRunEnd(s, i + 1) ELSE i

RECURSIVE Atoi(_)
Atoi(ds) ==
    IF ds = <<>> THEN 0
    ELSE 10 * Atoi(SubSeq(ds, 1, Len(ds) - 1)) + (IndexIn(Digits, ds[Len(ds)]) - 1)

parseInteger(s, pi) ==
    With(digitRunEnd(s, pi), LAMBDA i :
        IF i = pi THEN Fail("expected integer, but didn't find it", pi)
        ELSE Ok(i, Atoi(Slice(s, pi, i))))

(***************************************************************************)
(* The An+B micro-syntax.  val is <<a, b>>.                                *)
(***************************************************************************)
nthEOF(i) == Fail("unexpected EOF while attempting to parse expression of form an+b", i)

nthInvalid(i) ==
    Fail("unexpected character while attempting to parse expression of form an+b", i)

\* readN that takes the integer after either sign as it stands
nthReadNUnsigned(s, pi, a) ==
    With(skipWhitespace(s, pi).i, LAMBDA i :
        IF i >= Len(s) THEN nthEOF(i)
        ELSE IF s[i + 1] \in {"+", "-"}
        THEN Try(parseInteger(s, skipWhitespace(s, i + 1).i), LAMBDA r : Ok(r.i, <<a, r.val>>))
        ELSE Ok(i, <<a, 0>>))

\* label readN
nthReadN(s, pi, a) ==
    With(skipWhitespace(s, pi).i, LAMBDA i :
        IF i >= Len(s) THEN nthEOF(i)
        ELSE IF s[i + 1] \in {"+", "-"}
        THEN Try(parseInteger(s, skipWhitespace(s, i + 1).i), LAMBDA r :
                Ok(r.i, <<a, IF s[i + 1] = "+" THEN r.val ELSE 0 - r.val>>))
        ELSE Ok(i, <<a, 0>>))

\* label readA
nthReadA(s, pi, a) ==
    IF pi >= Len(s) THEN nthEOF(pi)
    ELSE IF At(s, pi) \in {"n", "N"} THEN nthReadN(s, pi + 1, a)
    ELSE Ok(pi, <<0, a>>)

\* labels positiveA (sign = 1) and negativeA (sign = -1)
nthSignedA(s, pi, sign) ==
    IF pi >= Len(s) THEN nthEOF(pi)
    ELSE IF isDigit(At(s, pi))
    THEN Try(parseInteger(s, pi), LAMBDA r : nthReadA(s, r.i, sign * r.val))
    ELSE IF s[pi + 1] \in {"n", "N"} THEN nthReadN(s, pi + 1, sign)
    ELSE nthInvalid(pi)

parseNth(s, pi) ==
    IF pi >= Len(s) THEN nthEOF(pi)
    ELSE IF s[pi + 1] = "-" THEN nthSignedA(s, pi + 1, -1)
    ELSE IF s[pi + 1] = "+" THEN nthSignedA(s, pi + 1, 1)
    ELSE IF isDigit(At(s, pi)) THEN nthSignedA(s, pi, 1)
    ELSE IF s[pi + 1] \in {"n", "N"} THEN nthReadN(s, pi + 1, 1)
    ELSE IF s[pi + 1] \in {"o", "O", "e", "E"}
    THEN Try(parseName(s, pi), LAMBDA r :
            With(toLowerASCII(r.val), LAMBDA id :
                IF id = <<"o", "d", "d">> THEN Ok(r.i, <<2, 1>>)
                ELSE IF id = <<"e", "v", "e", "n">> THEN Ok(r.i, <<2, 0>>)
                ELSE Fail("expected 'odd' or 'even'", r.i)))
    ELSE nthInvalid(pi)

(***************************************************************************)
(* Specificity: [3]uint8                                                   *)
(***************************************************************************)
Uint8 == 256

Specificity(a, b, c) == <<a, b, c>>

RECURSIVE LessFrom(_, _, _)
LessFrom(s, other, k) ==
    IF k > 3 THEN FALSE
    ELSE IF s[k] < other[k] THEN TRUE
    ELSE IF s[k] > other[k] THEN FALSE
    ELSE LessFrom(s, other, k + 1)

\* an order in which any smaller component decides
LessInSomeComponent(s, other) == \E k \in 1..3 : s[k] < other[k]

Less(s, other) == LessFrom(s, other, 1)

add(s, other) == [k \in 1..3 |-> (s[k] + other[k]) % Uint8]

(***************************************************************************)
(* Matchers.  A matcher the parser builds is kept as the value of the      *)
(* struct that implements it; the conjunction of the clauses of one        *)
(* compound is kept as the list of its conjuncts.                          *)
(***************************************************************************)
NilMatch == [kind |-> "nil"]

NoName == <<>>

tagSelector(tag) == [kind |-> "tag", tag |-> tag]

typeSelector(tag) == tagSelector(toLowerASCII(tag))

idSelector(id) == [kind |-> "id", id |-> id]

classSelector(class) == [kind |-> "class", class |-> class]

attrSelector(key, operation, val) ==
    [kind |-> "attr", key |-> toLowerASCII(key), operation |-> operation, val |-> val]

relativePseudoClassSelector(name, group) ==
    [kind |-> "relative", name |-> name, match |-> group]

containsPseudoClassSelector(own, value) ==
    [kind |-> "contains", own |-> own, value |-> value]

regexpPseudoClassSelector(own, rx) == [kind |-> "regexp", own |-> own, regexp |-> rx]

nthPseudoClassSelector(a, b, last, ofType) ==
    [kind |-> "nth", a |-> a, b |-> b, last |-> last, ofType |-> ofType]

onlyChildPseudoClassSelector(ofType) == [kind |-> "onlychild", ofType |-> ofType]

inputPseudoClassSelector == [kind |-> "input"]

emptyElementPseudoClassSelector == [kind |-> "empty"]

rootPseudoClassSelector == [kind |-> "root"]

compoundSelector(selectors, pseudoElement) ==
    [kind |-> "compound", selectors |-> selectors, pseudoElement |-> pseudoElement]

combinedSelector(first, combinator, second) ==
    [kind |-> "combined", first |-> first, combinator |-> combinator, second |-> second]

\* a(n) && b(n): b joins the conjuncts of a
intersectionSelector(a, b) == compoundSelector(Append(a.selectors, b), NoName)

oneSelector(match, spec, pseudoElement) ==
    [match |-> match, Specificity |-> spec, PseudoElement |-> pseudoElement]

zeroSelector == oneSelector(NilMatch, Specificity(0, 0, 0), NoName)

RECURSIVE maximumSpecificityFrom(_, _, _)
maximumSpecificityFrom(group, k, out) ==
    IF k > Len(group) THEN out
    ELSE maximumSpecificityFrom(group, k + 1,
            IF Less(out, group[k].Specificity) THEN group[k].Specificity ELSE out)

\* the specificity of the first chain of a group
firstSpecificity(group) == group[1].Specificity

maximumSpecificity(group) == maximumSpecificityFrom(group, 1, Specificity(0, 0, 0))

\* sel.unionMatch(): the matchers of the chains of a group
unionMatch(group) == [k \in 1..Len(group) |-> group[k].match]

(***************************************************************************)
(* Simple selectors                                                        *)
(***************************************************************************)
parseTypeSelector(s, pi) ==
    Try(parseIdentifier(s, pi), LAMBDA r :
        Ok(r.i, oneSelector(typeSelector(r.val), Specificity(0, 0, 1), NoName)))

parseIDSelector(s, pi) ==
    IF pi >= Len(s) THEN Fail("expected id selector (#id), found EOF instead", pi)
    ELSE IF s[pi + 1] # "#" THEN Fail("expected id selector (#id)", pi)
    ELSE Try(parseName(s, pi + 1), LAMBDA r :
            Ok(r.i, oneSelector(idSelector(r.val), Specificity(1, 0, 0), NoName)))

\* a class clause counted as a type selector
parseClassSelectorAsType(s, pi) ==
    IF pi >= Len(s) THEN Fail("expected class selector (.class), found EOF instead", pi)
    ELSE IF s[pi + 1] # "." THEN Fail("expected class selector (.class)", pi)
    ELSE Try(parseIdentifier(s, pi + 1), LAMBDA r :
            Ok(r.i, oneSelector(classSelector(r.val), Specificity(0, 0, 1), NoName)))

parseClassSelector(s, pi) ==
    IF pi >= Len(s) THEN Fail("expected class selector (.class), found EOF instead", pi)
    ELSE IF s[pi + 1] # "." THEN Fail("expected class selector (.class)", pi)
    ELSE Try(parseIdentifier(s, pi + 1), LAMBDA r :
            Ok(r.i, oneSelector(classSelector(r.val), Specificity(0, 1, 0), NoName)))

AttributeOperators ==
    {<<"=">>, <<"!", "=">>, <<"~", "=">>, <<"|", "=">>, <<"^", "=">>, <<"$", "=">>,
     <<"*", "=">>, <<"#", "=">>}

EOFInAttribute(i) == Fail("unexpected EOF in attribute selector", i)

\* from the operator on: op is at position pi
parseAttributeValue(s, pi, key) ==
    IF pi + 2 >= Len(s) THEN EOFInAttribute(pi)
    ELSE IF s[pi + 1] # "=" /\ s[pi + 2] # "=" THEN Fail("expected equality operator", pi)
    ELSE
      With(IF s[pi + 1] = "=" THEN <<"=">> ELSE Slice(s, pi, pi + 2), LAMBDA op :
      With(skipWhitespace(s, pi + Len(op)).i, LAMBDA i :
          IF i >= Len(s) THEN EOFInAttribute(i)
          ELSE
            Try(IF op = <<"#", "=">> THEN parseRegex(s, i)
                ELSE IF s[i + 1] \in {"'", "\""} THEN parseString(s, i)
                ELSE parseIdentifier(s, i), LAMBDA v :
            With(skipWhitespace(s, v.i).i, LAMBDA j :
                IF j >= Len(s) THEN EOFInAttribute(j)
                ELSE IF s[j + 1] # "]" THEN Fail("expected ']'", j)
                ELSE IF op \in AttributeOperators
                THEN Ok(j + 1, attrSelector(key, op, v.val))
                ELSE Fail("attribute operator is not supported", j + 1)))))

parseAttributeMatcher(s, pi) ==
    IF pi >= Len(s) THEN Fail("expected attribute selector ([attribute]), found EOF instead", pi)
    ELSE IF s[pi + 1] # "[" THEN Fail("expected attribute selector ([attribute])", pi)
    ELSE
      Try(parseIdentifier(s, skipWhitespace(s, pi + 1).i), LAMBDA key :
      With(skipWhitespace(s, key.i).i, LAMBDA i :
          IF i >= Len(s) THEN EOFInAttribute(i)
          ELSE IF s[i + 1] = "]" THEN Ok(i + 1, attrSelector(key.val, <<>>, <<>>))
          ELSE parseAttributeValue(s, i, key.val)))

parseAttributeSelector(s, pi) ==
    Try(parseAttributeMatcher(s, pi), LAMBDA r :
        Ok(r.i, oneSelector(r.val, Specificity(0, 1, 0), NoName)))

(***************************************************************************)
(* The names of the pseudo-class switch, as texts                          *)
(***************************************************************************)
name_not == <<"n", "o", "t">>

name_has == <<"h", "a", "s">>

name_haschild == <<"h", "a", "s", "c", "h", "i", "l", "d">>

name_containsown == <<"c", "o", "n", "t", "a", "i", "n", "s", "o", "w", "n">>

name_contains == <<"c", "o", "n", "t", "a", "i", "n", "s">>

name_matchesown == <<"m", "a", "t", "c", "h", "e", "s", "o", "w", "n">>

name_matches == <<"m", "a", "t", "c", "h", "e", "s">>

name_nth_last_child == <<"n", "t", "h", "-", "l", "a", "s", "t", "-", "c", "h", "i", "l", "d">>

name_nth_last_of_type == <<"n", "t", "h", "-", "l", "a", "s", "t", "-", "o", "f", "-", "t", "y", "p", "e">>

name_nth_of_type == <<"n", "t", "h", "-", "o", "f", "-", "t", "y", "p", "e">>

name_nth_child == <<"n", "t", "h", "-", "c", "h", "i", "l", "d">>

name_first_child == <<"f", "i", "r", "s", "t", "-", "c", "h", "i", "l", "d">>

name_last_child == <<"l", "a", "s", "t", "-", "c", "h", "i", "l", "d">>

name_first_of_type == <<"f", "i", "r", "s", "t", "-", "o", "f", "-", "t", "y", "p", "e">>

name_last_of_type == <<"l", "a", "s", "t", "-", "o", "f", "-", "t", "y", "p", "e">>

name_only_child == <<"o", "n", "l", "y", "-", "c", "h", "i", "l", "d">>

name_only_of_type == <<"o", "n", "l", "y", "-", "o", "f", "-", "t", "y", "p", "e">>

name_input == <<"i", "n", "p", "u", "t">>

name_empty == <<"e", "m", "p", "t", "y">>

name_root == <<"r", "o", "o", "t">>

(***************************************************************************)
(* Pseudo-classes and pseudo-elements                                      *)
(***************************************************************************)
SupportedPseudoElements ==
    {<<"a", "f", "t", "e", "r">>,
     <<"b", "a", "c", "k", "d", "r", "o", "p">>,
     <<"b", "e", "f", "o", "r", "e">>,
     <<"c", "u", "e">>,
     <<"f", "i", "r", "s", "t", "-", "l", "e", "t", "t", "e", "r">>,
     <<"f", "i", "r", "s", "t", "-", "l", "i", "n", "e">>,
     <<"g", "r", "a", "m", "m", "a", "r", "-", "e", "r", "r", "o", "r">>,
     <<"m", "a", "r", "k", "e", "r">>,
     <<"p", "l", "a", "c", "e", "h", "o", "l", "d", "e", "r">>,
     <<"s", "e", "l", "e", "c", "t", "i", "o">>,
     <<"s", "p", "e", "l", "l", "i", "n", "g", "-", "e", "r", "r", "o", "r">>}

\* the names the parser's switch accepts as pseudo-elements
PseudoElementCases ==
    {<<"a", "f", "t", "e", "r">>,
     <<"b", "a", "c", "k", "d", "r", "o", "p">>,
     <<"b", "e", "f", "o", "r", "e">>,
     <<"c", "u", "e">>,
     <<"f", "i", "r", "s", "t", "-", "l", "e", "t", "t", "e", "r">>,
     <<"f", "i", "r", "s", "t", "-", "l", "i", "n", "e">>,
     <<"g", "r", "a", "m", "m", "a", "r", "-", "e", "r", "r", "o", "r">>,
     <<"m", "a", "r", "k", "e", "r">>,
     <<"p", "l", "a", "c", "e", "h", "o", "l", "d", "e", "r">>,
     <<"s", "e", "l", "e", "c", "t", "i", "o", "n">>,
     <<"s", "p", "e", "l", "l", "i", "n", "g", "-", "e", "r", "r", "o", "r">>}

errExpectedParenthesis == "expected '(' but didn't find it"

errExpectedClosingParenthesis == "expected ')' but didn't find it"

errUnmatchedParenthesis == "unmatched '('"

RECURSIVE parseSelectorGroup(_, _)
RECURSIVE parseSelector(_, _)
RECURSIVE parseSimpleSelectorSequence(_, _)
RECURSIVE parsePseudoclassSelector(_, _)

\* case "not", "has", "haschild"
parseRelativePseudoclass(s, pi, name) ==
    With(consumeParenthesis(s, pi), LAMBDA open :
        IF ~open.val THEN Fail(errExpectedParenthesis, pi)
        ELSE
          Try(parseSelectorGroup(s, open.i), LAMBDA g :
          With(consumeClosingParenthesis(s, g.i), LAMBDA close :
              IF ~close.val THEN Fail(errExpectedClosingParenthesis, g.i)
              ELSE Ok(close.i,
                      oneSelector(relativePseudoClassSelector(name, unionMatch(g.val)),
                                  maximumSpecificity(g.val), NoName)))))

\* case "contains", "containsown"
parseContainsPseudoclass(s, pi, name) ==
    With(consumeParenthesis(s, pi), LAMBDA open :
        IF ~open.val THEN Fail(errExpectedParenthesis, pi)
        ELSE IF open.i = Len(s) THEN Fail(errUnmatchedParenthesis, open.i)
        ELSE
          Try(IF s[open.i + 1] \in {"'", "\""} THEN parseString(s, open.i)
              ELSE parseIdentifier(s, open.i), LAMBDA v :
          With(skipWhitespace(s, v.i).i, LAMBDA i :
              IF i >= Len(s) THEN Fail("unexpected EOF in pseudo selector", i)
              ELSE
                With(consumeClosingParenthesis(s, i), LAMBDA close :
                    IF ~close.val THEN Fail(errExpectedClosingParenthesis, i)
                    ELSE Ok(close.i,
                            oneSelector(containsPseudoClassSelector(name = name_containsown,
                                                                    toLowerASCII(v.val)),
                                        Specificity(0, 1, 0), NoName))))))

\* case "matches", "matchesown"
parseRegexpPseudoclass(s, pi, name) ==
    With(consumeParenthesis(s, pi), LAMBDA open :
        IF ~open.val THEN Fail(errExpectedParenthesis, pi)
        ELSE
          Try(parseRegex(s, open.i), LAMBDA rx :
              IF rx.i >= Len(s) THEN Fail("unexpected EOF in pseudo selector", rx.i)
              ELSE
                With(consumeClosingParenthesis(s, rx.i), LAMBDA close :
                    IF ~close.val THEN Fail(errExpectedClosingParenthesis, rx.i)
                    ELSE Ok(close.i,
                            oneSelector(regexpPseudoClassSelector(name = name_matchesown, rx.val),
                                        Specificity(0, 1, 0), NoName)))))

\* case "nth-child", "nth-last-child", "nth-of-type", "nth-last-of-type"
parseNthPseudoclass(s, pi, name) ==
    With(consumeParenthesis(s, pi), LAMBDA open :
        IF ~open.val THEN Fail(errExpectedParenthesis, pi)
        ELSE
          Try(parseNth(s, open.i), LAMBDA ab :
          With(consumeClosingParenthesis(s, ab.i), LAMBDA close :
              IF ~close.val THEN Fail(errExpectedClosingParenthesis, ab.i)
              ELSE Ok(close.i,
                      oneSelector(nthPseudoClassSelector(ab.val[1], ab.val[2],
                                      name \in {name_nth_last_child, name_nth_last_of_type},
                                      name \in {name_nth_of_type, name_nth_last_of_type}),
                                  Specificity(0, 1, 0), NoName)))))

\* the switch on the lower-cased name; pi is the position after the name
parsePseudoclassNamed(s, pi, name) ==
    CASE name \in {name_not, name_has, name_haschild} -> parseRelativePseudoclass(s, pi, name)
      [] name \in {name_contains, name_containsown} -> parseContainsPseudoclass(s, pi, name)
      [] name \in {name_matches, name_matchesown} -> parseRegexpPseudoclass(s, pi, name)
      [] name \in {name_nth_child, name_nth_last_child, name_nth_of_type, name_nth_last_of_type} ->
            parseNthPseudoclass(s, pi, name)
      [] name \in PseudoElementCases ->
            Ok(pi, oneSelector(NilMatch, Specificity(0, 0, 1), name))
      [] name \in {name_first_child, name_last_child, name_first_of_type, name_last_of_type,
                   name_only_child, name_only_of_type, name_input, name_empty, name_root} ->
            Ok(pi, oneSelector(
                CASE name = name_first_child -> nthPseudoClassSelector(0, 1, FALSE, FALSE)
                  [] name = name_last_child -> nthPseudoClassSelector(0, 1, TRUE, FALSE)
                  [] name = name_first_of_type -> nthPseudoClassSelector(0, 1, FALSE, TRUE)
                  [] name = name_last_of_type -> nthPseudoClassSelector(0, 1, TRUE, TRUE)
                  [] name = name_only_child -> onlyChildPseudoClassSelector(FALSE)
                  [] name = name_only_of_type -> onlyChildPseudoClassSelector(TRUE)
                  [] name = name_input -> inputPseudoClassSelector
                  [] name = name_empty -> emptyElementPseudoClassSelector
                  [] name = name_root -> rootPseudoClassSelector,
                Specificity(0, 1, 0), NoName))
      [] OTHER -> Fail("unknown pseudoclass or pseudoelement", pi)

parsePseudoclassSelector(s, pi) ==
    IF pi >= Len(s) THEN Fail("expected pseudoclass selector (:pseudoclass), found EOF instead", pi)
    ELSE IF s[pi + 1] # ":" THEN Fail("expected attribute selector (:pseudoclass)", pi)
    ELSE IF ~InRange(s, pi + 1) THEN Fail(PANIC, pi + 1)
    ELSE Try(parseIdentifier(s, IF s[pi + 2] = ":" THEN pi + 2 ELSE pi + 1), LAMBDA r :
            parsePseudoclassNamed(s, r.i, toLowerASCII(r.val)))

(***************************************************************************)
(* Compounds, chains, groups                                               *)
(***************************************************************************)
\* whether the clause loop goes on: a clause starts at pi
simpleSelectorSequenceMore(s, pi) == pi < Len(s) /\ s[pi + 1] \in {"#", ".", "[", ":"}

\* one turn of the clause loop; result.match is NilMatch or the conjunction
\* so far
simpleSelectorSequenceStep(s, pi, result) ==
    Try(CASE s[pi + 1] = "#" -> parseIDSelector(s, pi)
          [] s[pi + 1] = "." -> parseClassSelector(s, pi)
          [] s[pi + 1] = "[" -> parseAttributeSelector(s, pi)
          [] s[pi + 1] = ":" -> parsePseudoclassSelector(s, pi), LAMBDA r :
    With(r.val, LAMBDA ns :
        IF result.match = NilMatch /\ ns.match = NilMatch /\ ns.PseudoElement # NoName
        THEN Fail("stand-alone pseudo-element not allowed", r.i)
        ELSE Ok(r.i,
                IF result.match = NilMatch
                THEN oneSelector(compoundSelector(<<ns.match>>, NoName),
                                 ns.Specificity, ns.PseudoElement)
                ELSE oneSelector(IF ns.PseudoElement = NoName
                                 THEN intersectionSelector(result.match, ns.match)
                                 ELSE result.match,
                                 add(result.Specificity, ns.Specificity),
                                 ns.PseudoElement))))

\* after the clause loop
simpleSelectorSequenceEnd(pi, result) ==
    Ok(pi, oneSelector(
               compoundSelector(IF result.match = NilMatch THEN <<>>
                                ELSE result.match.selectors,
                                result.PseudoElement),
               result.Specificity, result.PseudoElement))

RECURSIVE simpleSelectorSequenceLoop(_, _, _)
simpleSelectorSequenceLoop(s, pi, result) ==
    IF simpleSelectorSequenceMore(s, pi)
    THEN Try(simpleSelectorSequenceStep(s, pi, result), LAMBDA r :
            simpleSelectorSequenceLoop(s, r.i, r.val))
    ELSE simpleSelectorSequenceEnd(pi, result)

\* before the clause loop: `*`, a type selector, or nothing
simpleSelectorSequenceStart(s, pi) ==
    IF pi >= Len(s) THEN Fail("expected selector, found EOF instead", pi)
    ELSE IF s[pi + 1] = "*" THEN Ok(pi + 1, zeroSelector)
    ELSE IF s[pi + 1] \in {"#", ".", "[", ":"} THEN Ok(pi, zeroSelector)
    ELSE Try(parseTypeSelector(s, pi), LAMBDA r :
            Ok(r.i, oneSelector(compoundSelector(<<r.val.match>>, NoName),
                                r.val.Specificity, r.val.PseudoElement)))

parseSimpleSelectorSequence(s, pi) ==
    Try(simpleSelectorSequenceStart(s, pi), LAMBDA start :
        simpleSelectorSequenceLoop(s, start.i, start.val))

\* whether the combinator loop goes on after the whitespace at ws: a
\* combinator, written or implied by the whitespace, stands there
selectorMore(s, ws) ==
    /\ ws.i < Len(s)
    /\ s[ws.i + 1] \notin {",", ")"}
    /\ s[ws.i + 1] \in {"+", ">", "~"} \/ ws.val

\* selectorStep with `combinator = p.s[p.i]` for whatever stands there
selectorStepAnyCombinator(s, ws, result) ==
    With(s[ws.i + 1] \in {"+", ">", "~"}, LAMBDA explicit :
        Try(parseSimpleSelectorSequence(s,
                IF explicit THEN skipWhitespace(s, ws.i + 1).i ELSE ws.i), LAMBDA c :
            Ok(c.i, oneSelector(combinedSelector(result.match, s[ws.i + 1], c.val.match),
                                add(result.Specificity, c.val.Specificity),
                                result.PseudoElement))))

\* one turn of the combinator loop, when it goes on
selectorStep(s, ws, result) ==
    With(s[ws.i + 1] \in {"+", ">", "~"}, LAMBDA explicit :
        Try(parseSimpleSelectorSequence(s,
                IF explicit THEN skipWhitespace(s, ws.i + 1).i ELSE ws.i), LAMBDA c :
            Ok(c.i, oneSelector(combinedSelector(result.match,
                                    IF explicit THEN s[ws.i + 1] ELSE " ", c.val.match),
                                add(result.Specificity, c.val.Specificity),
                                result.PseudoElement))))

RECURSIVE selectorLoop(_, _, _)
\* the combinator loop of parseSelector
selectorLoop(s, pi, result) ==
    With(skipWhitespace(s, pi), LAMBDA ws :
        IF selectorMore(s, ws)
        THEN Try(selectorStep(s, ws, result), LAMBDA r : selectorLoop(s, r.i, r.val))
        ELSE Ok(ws.i, result))

parseSelector(s, pi) ==
    Try(parseSimpleSelectorSequence(s, skipWhitespace(s, pi).i), LAMBDA r :
        selectorLoop(s, r.i, r.val))

RECURSIVE selectorGroupLoop(_, _, _)
selectorGroupLoop(s, pi, result) ==
    IF pi < Len(s) /\ s[pi + 1] = ","
    THEN Try(parseSelector(s, pi + 1), LAMBDA c :
            selectorGroupLoop(s, c.i, Append(result, c.val)))
    ELSE Ok(pi, result)

parseSelectorGroup(s, pi) ==
    Try(parseSelector(s, pi), LAMBDA current :
        selectorGroupLoop(s, current.i, <<current.val>>))

(***************************************************************************)
(* Compile                                                                 *)
(***************************************************************************)
NoSelector == <<>>

\* Compile without the test for left-over input
CompileIgnoringRest(sel) ==
    With(parseSelectorGroup(sel, 0), LAMBDA r :
        IF r.err # ""
        THEN [selector |-> NoSelector, err |-> r.err, leftover |-> 0, i |-> r.i]
        ELSE [selector |-> r.val, err |-> "", leftover |-> 0, i |-> r.i])

\* The outcome of Compile(sel): the selector (the group's chains) and the
\* error; i is the position the group parser stopped at.
Compile(sel) ==
    With(parseSelectorGroup(sel, 0), LAMBDA r :
        IF r.err # ""
        THEN [selector |-> NoSelector, err |-> r.err, leftover |-> 0, i |-> r.i]
        ELSE IF r.i < Len(sel)
        THEN [selector |-> NoSelector, err |-> "bytes left over",
              leftover |-> Len(sel) - r.i, i |-> r.i]
        ELSE [selector |-> r.val, err |-> "", leftover |-> 0, i |-> r.i])

(***************************************************************************)
(* Serialization: the String methods                                       *)
(***************************************************************************)
SerializableKinds == {"tag", "id", "class", "attr", "compound", "combined"}

RECURSIVE StringPanics(_)
\* String() reaches a panic("not yet supported")
StringPanics(m) ==
    IF m.kind = "compound" THEN \E k \in DOMAIN m.selectors : StringPanics(m.selectors[k])
    ELSE IF m.kind = "combined"
    THEN StringPanics(m.first) \/ (m.second # NilMatch /\ StringPanics(m.second))
    ELSE m.kind \notin SerializableKinds

RECURSIVE Join(_)
\* strings.Join(chunks, "")
Join(chunks) == IF chunks = <<>> THEN <<>> ELSE Head(chunks) \o Join(Tail(chunks))

RECURSIVE String(_)
String(m) ==
    IF m.kind = "tag" THEN m.tag
    ELSE IF m.kind = "id" THEN <<"#">> \o m.id
    ELSE IF m.kind = "class" THEN <<".">> \o m.class
    ELSE IF m.kind = "attr" THEN <<"[">> \o m.key \o m.operation \o m.val \o <<"]">>
    ELSE IF m.kind = "compound"
    THEN LET s == Join([k \in DOMAIN m.selectors |-> String(m.selectors[k])])
         IN  IF m.pseudoElement # NoName THEN s \o <<":", ":">> \o m.pseudoElement ELSE s
    ELSE LET start == String(m.first)
         IN  IF m.second # NilMatch
             THEN start \o (start \o <<" ", m.combinator, " ">> \o String(m.second))
             ELSE start

RECURSIVE JoinComma(_)
JoinComma(chunks) ==
    IF Len(chunks) <= 1 THEN Join(chunks)
    ELSE Head(chunks) \o <<",", " ">> \o JoinComma(Tail(chunks))

\* the text of a compiled group: its chains, comma-separated
selectorGroupString(group) == JoinComma([k \in DOMAIN group |-> String(group[k].match)])

(***************************************************************************)
(* The document tree (html.Node).  Nodes are 1..Len(doc.Type); 0 is nil.   *)
(* doc holds, per node, the fields of html.Node the matchers read.         *)
(***************************************************************************)
VARIABLE doc

Nil == 0

ElementNode == "element"

TextNode == "text"

CommentNode == "comment"

DocumentNode == "document"

Nodes == DOMAIN doc.Type

Type(n) == doc.Type[n]

Data(n) == doc.Data[n]

Attr(n) == doc.Attr[n]

Parent(n) == doc.Parent[n]

FirstChild(n) == doc.FirstChild[n]

LastChild(n) == doc.LastChild[n]

PrevSibling(n) == doc.PrevSibling[n]

NextSibling(n) == doc.NextSibling[n]

(***************************************************************************)
(* Attribute matchers                                                      *)
(***************************************************************************)
\* strings.Contains(s, sub)
Contains(s, sub) == IndexFrom(s, 0, sub) # -1

HasPrefix(s, pre) == HasPrefixAt(s, 0, pre)

HasSuffix(s, suf) == Len(suf) <= Len(s) /\ HasPrefixAt(s, Len(s) - Len(suf), suf)

\* strings.TrimSpace(s) == ""
TrimSpaceIsEmpty(s) == \A k \in DOMAIN s : s[k] \in WhiteSpace

\* strings.IndexAny(s, " \t\r\n\f")
IndexAnySpace(s) ==
    LET hits == {k \in 0..(Len(s) - 1) : At(s, k) \in WhiteSpace}
    IN  IF hits = {} THEN -1 ELSE CHOOSE k \in hits : \A m \in hits : k <= m

RECURSIVE matchInclude(_, _)
matchInclude(val, s) ==
    IF s # <<>>
    THEN LET i == IndexAnySpace(s)
         IN  IF i = -1 THEN s = val
             ELSE IF Slice(s, 0, i) = val THEN TRUE
             ELSE matchInclude(val, Slice(s, i + 1, Len(s)))
    ELSE FALSE

\* the function f of matchAttribute, by operation
attributeTest(operation, val, s) ==
    CASE operation = <<>> -> TRUE
      [] operation = <<"=">> -> s = val
      [] operation = <<"~", "=">> -> matchInclude(val, s)
      [] operation = <<"|", "=">> ->
            IF s = val THEN TRUE
            ELSE IF Len(s) <= Len(val) THEN FALSE
            ELSE Slice(s, 0, Len(val)) = val /\ At(s, Len(val)) = "-"
      [] operation = <<"^", "=">> -> ~TrimSpaceIsEmpty(s) /\ HasPrefix(s, val)
      [] operation = <<"$", "=">> -> ~TrimSpaceIsEmpty(s) /\ HasSuffix(s, val)
      [] operation = <<"*", "=">> -> ~TrimSpaceIsEmpty(s) /\ Contains(s, val)
      \* rx.MatchString(s): the patterns drawn are literal texts
      [] operation = <<"#", "=">> -> Contains(s, val)

matchAttribute(n, key, operation, val) ==
    IF Type(n) # ElementNode THEN FALSE
    ELSE \E k \in DOMAIN Attr(n) :
            Attr(n)[k].Key = key /\ attributeTest(operation, val, Attr(n)[k].Val)

\* some attribute named key has another value than val
attributeNotEqualMatchPresent(key, val, n) ==
    IF Type(n) # ElementNode THEN FALSE
    ELSE \E k \in DOMAIN Attr(n) : Attr(n)[k].Key = key /\ Attr(n)[k].Val # val

attributeNotEqualMatch(key, val, n) ==
    IF Type(n) # ElementNode THEN FALSE
    ELSE ~\E k \in DOMAIN Attr(n) : Attr(n)[k].Key = key /\ Attr(n)[k].Val = val

attrSelectorMatch(t, n) ==
    IF t.operation = <<"!", "=">> THEN attributeNotEqualMatch(t.key, t.val, n)
    ELSE matchAttribute(n, t.key, t.operation, t.val)

(***************************************************************************)
(* Node text                                                               *)
(***************************************************************************)
RECURSIVE writeNodeText(_)
RECURSIVE writeSiblingsText(_)
\* the text writeNodeText writes for c and the siblings after it
writeSiblingsText(c) ==
    IF c = Nil THEN <<>> ELSE writeNodeText(c) \o writeSiblingsText(NextSibling(c))

writeNodeText(n) ==
    IF Type(n) = TextNode THEN Data(n)
    ELSE IF Type(n) = ElementNode THEN writeSiblingsText(FirstChild(n))
    ELSE <<>>

nodeText(n) == writeNodeText(n)

RECURSIVE ownTextFrom(_)
ownTextFrom(c) ==
    IF c = Nil THEN <<>>
    ELSE (IF Type(c) = TextNode THEN Data(c) ELSE <<>>) \o ownTextFrom(NextSibling(c))

nodeOwnText(n) == ownTextFrom(FirstChild(n))

(***************************************************************************)
(* Positional pseudo-classes                                               *)
(***************************************************************************)
Abs(x) == IF x < 0 THEN 0 - x ELSE x

\* Go's integer division and remainder truncate toward zero
GoQuo(x, y) == IF (x < 0) = (y < 0) THEN Abs(x) \div Abs(y) ELSE 0 - (Abs(x) \div Abs(y))

GoRem(x, y) == x - y * GoQuo(x, y)

RECURSIVE nthScan(_, _, _, _, _, _)
\* the sibling loop of nthChildMatch from c on: <<i, count>> at its end
nthScan(c, n, last, ofType, i, count) ==
    IF c = Nil THEN <<i, count>>
    ELSE IF Type(c) # ElementNode \/ (ofType /\ Data(c) # Data(n))
    THEN nthScan(NextSibling(c), n, last, ofType, i, count)
    ELSE IF c = n
    THEN IF ~last THEN <<count + 1, count + 1>>
         ELSE nthScan(NextSibling(c), n, last, ofType, count + 1, count + 1)
    ELSE nthScan(NextSibling(c), n, last, ofType, i, count + 1)

\* an nth-child test that checks divisibility only, not the sign of the quotient
nthChildMatchAnyQuotient(a, b, last, ofType, n) ==
    IF Type(n) # ElementNode \/ Parent(n) = Nil THEN FALSE
    ELSE IF Type(Parent(n)) = DocumentNode THEN FALSE
    ELSE LET r == nthScan(FirstChild(Parent(n)), n, last, ofType, -1, 0)
             pos == IF last THEN r[2] - r[1] + 1 ELSE r[1]
         IN  r[1] # -1 /\ GoRem(pos - b, a) = 0

nthChildMatch(a, b, last, ofType, n) ==
    IF Type(n) # ElementNode THEN FALSE
    ELSE IF Parent(n) = Nil THEN FALSE
    ELSE IF Type(Parent(n)) = DocumentNode THEN FALSE
    ELSE LET r == nthScan(FirstChild(Parent(n)), n, last, ofType, -1, 0)
             pos == IF last THEN r[2] - r[1] + 1 ELSE r[1]
             i == pos - b
         IN  IF r[1] = -1 THEN FALSE
             ELSE IF a = 0 THEN i = 0
             ELSE GoRem(i, a) = 0 /\ GoQuo(i, a) >= 0

RECURSIVE simpleNthScan(_, _, _, _, _, _)
\* the sibling loop of simpleNthChildMatch (forward) and
\* simpleNthLastChildMatch (backward)
simpleNthScan(c, n, b, ofType, backward, count) ==
    LET next == IF backward THEN PrevSibling(c) ELSE NextSibling(c)
    IN  IF c = Nil THEN FALSE
        ELSE IF Type(c) # ElementNode \/ (ofType /\ Data(c) # Data(n))
        THEN simpleNthScan(next, n, b, ofType, backward, count)
        ELSE IF c = n THEN count + 1 = b
        ELSE IF count + 1 >= b THEN FALSE
        ELSE simpleNthScan(next, n, b, ofType, backward, count + 1)

\* simpleNthChildMatch that counts the siblings of every tag
simpleNthChildMatchAnyTag(b, ofType, n) ==
    IF Type(n) # ElementNode THEN FALSE
    ELSE IF Parent(n) = Nil THEN FALSE
    ELSE IF Type(Parent(n)) = DocumentNode THEN FALSE
    ELSE simpleNthScan(FirstChild(Parent(n)), n, b, FALSE, FALSE, 0)

simpleNthChildMatch(b, ofType, n) ==
    IF Type(n) # ElementNode THEN FALSE
    ELSE IF Parent(n) = Nil THEN FALSE
    ELSE IF Type(Parent(n)) = DocumentNode THEN FALSE
    ELSE simpleNthScan(FirstChild(Parent(n)), n, b, ofType, FALSE, 0)

simpleNthLastChildMatch(b, ofType, n) ==
    IF Type(n) # ElementNode THEN FALSE
    ELSE IF Parent(n) = Nil THEN FALSE
    ELSE IF Type(Parent(n)) = DocumentNode THEN FALSE
    ELSE simpleNthScan(LastChild(Parent(n)), n, b, ofType, TRUE, 0)

nthPseudoClassSelectorMatch(s, n) ==
    IF s.a = 0
    THEN IF s.last THEN simpleNthLastChildMatch(s.b, s.ofType, n)
         ELSE simpleNthChildMatch(s.b, s.ofType, n)
    ELSE nthChildMatch(s.a, s.b, s.last, s.ofType, n)

RECURSIVE onlyChildScan(_, _, _, _)
onlyChildScan(c, n, ofType, count) ==
    IF c = Nil THEN count = 1
    ELSE IF Type(c) # ElementNode \/ (ofType /\ Data(c) # Data(n))
    THEN onlyChildScan(NextSibling(c), n, ofType, count)
    ELSE IF count + 1 > 1 THEN FALSE
    ELSE onlyChildScan(NextSibling(c), n, ofType, count + 1)

onlyChildMatch(ofType, n) ==
    IF Type(n) # ElementNode THEN FALSE
    ELSE IF Parent(n) = Nil THEN FALSE
    ELSE IF Type(Parent(n)) = DocumentNode THEN FALSE
    ELSE onlyChildScan(FirstChild(Parent(n)), n, ofType, 0)

InputTags == {<<"i", "n", "p", "u", "t">>, <<"s", "e", "l", "e", "c", "t">>,
              <<"t", "e", "x", "t", "a", "r", "e", "a">>, <<"b", "u", "t", "t", "o", "n">>}

inputMatch(n) == Type(n) = ElementNode /\ Data(n) \in InputTags

RECURSIVE emptyScan(_)
emptyScan(c) ==
    IF c = Nil THEN TRUE
    ELSE IF Type(c) \in {ElementNode, TextNode} THEN FALSE
    ELSE emptyScan(NextSibling(c))

emptyElementMatch(n) == IF Type(n) # ElementNode THEN FALSE ELSE emptyScan(FirstChild(n))

rootMatch(n) ==
    IF Type(n) # ElementNode THEN FALSE
    ELSE IF Parent(n) = Nil THEN FALSE
    ELSE Type(Parent(n)) = DocumentNode

(***************************************************************************)
(* Match: the Match method of every matcher                                *)
(***************************************************************************)
UnknownCombinator == "panic: unknown combinator"

RECURSIVE Match(_, _)
RECURSIVE selectorGroupMatch(_, _)
RECURSIVE hasChildMatch(_, _)
RECURSIVE hasDescendantMatch(_, _)
RECURSIVE ancestorLoop(_, _)
RECURSIVE adjacentLoop(_, _)
RECURSIVE generalSiblingLoop(_, _)

\* a group that tries its first chain only
selectorGroupMatchFirstOnly(group, n) == group # <<>> /\ Match(group[1], n)

\* selectorGroup.Match: one of the chains matches
selectorGroupMatch(group, n) == \E k \in DOMAIN group : Match(group[k], n)

\* the child loop from c on
hasChildMatch(c, a) ==
    IF c = Nil THEN FALSE
    ELSE IF selectorGroupMatch(a, c) THEN TRUE
    ELSE hasChildMatch(NextSibling(c), a)

hasDescendantMatch(c, a) ==
    IF c = Nil THEN FALSE
    ELSE IF selectorGroupMatch(a, c)
            \/ (Type(c) = ElementNode /\ hasDescendantMatch(FirstChild(c), a))
    THEN TRUE
    ELSE hasDescendantMatch(NextSibling(c), a)

\* a relative pseudo-class that does not look at the node type
relativePseudoClassSelectorMatchAnyNode(s, n) ==
    IF s.name = name_not THEN ~selectorGroupMatch(s.match, n)
    ELSE IF s.name = name_has THEN hasDescendantMatch(FirstChild(n), s.match)
    ELSE hasChildMatch(FirstChild(n), s.match)

relativePseudoClassSelectorMatch(s, n) ==
    IF Type(n) # ElementNode THEN FALSE
    ELSE IF s.name = name_not THEN ~selectorGroupMatch(s.match, n)
    ELSE IF s.name = name_has THEN hasDescendantMatch(FirstChild(n), s.match)
    ELSE hasChildMatch(FirstChild(n), s.match)

containsPseudoClassSelectorMatch(s, n) ==
    LET text == IF s.own THEN toLowerASCII(nodeOwnText(n)) ELSE toLowerASCII(nodeText(n))
    IN  Contains(text, s.value)

regexpPseudoClassSelectorMatch(s, n) ==
    LET text == IF s.own THEN nodeOwnText(n) ELSE nodeText(n)
    IN  Contains(text, s.regexp)

\* a compound in which the empty conjunction holds of every node
compoundSelectorMatchAnyNode(t, n) == \A k \in DOMAIN t.selectors : Match(t.selectors[k], n)

compoundSelectorMatch(t, n) ==
    IF Len(t.selectors) = 0 THEN Type(n) = ElementNode
    ELSE \A k \in DOMAIN t.selectors : Match(t.selectors[k], n)

\* for p := n.Parent; p != nil; p = p.Parent
ancestorLoop(a, p) ==
    IF p = Nil THEN FALSE
    ELSE IF Match(a, p) THEN TRUE
    ELSE ancestorLoop(a, Parent(p))

descendantMatch(a, d, n) == IF ~Match(d, n) THEN FALSE ELSE ancestorLoop(a, Parent(n))

\* a child combinator that accepts any ancestor
childMatchAnyAncestor(a, d, n) == Match(d, n) /\ ancestorLoop(a, Parent(n))

childMatch(a, d, n) == Match(d, n) /\ Parent(n) # Nil /\ Match(a, Parent(n))

\* for n = n.PrevSibling; n != nil; n = n.PrevSibling
adjacentLoop(s1, c) ==
    IF c = Nil THEN FALSE
    ELSE IF Type(c) = TextNode \/ Type(c) = CommentNode THEN adjacentLoop(s1, PrevSibling(c))
    ELSE Match(s1, c)

\* for c := n.PrevSibling; c != nil; c = c.PrevSibling
generalSiblingLoop(s1, c) ==
    IF c = Nil THEN FALSE
    ELSE IF Match(s1, c) THEN TRUE
    ELSE generalSiblingLoop(s1, PrevSibling(c))

siblingMatch(s1, s2, adjacent, n) ==
    IF ~Match(s2, n) THEN FALSE
    ELSE IF adjacent THEN adjacentLoop(s1, PrevSibling(n))
    ELSE generalSiblingLoop(s1, PrevSibling(n))

Combinators == {" ", ">", "+", "~"}

\* TRUE exactly when Match reaches panic("unknown combinator")
combinedSelectorPanics(t) == t.first # NilMatch /\ t.combinator \notin Combinators \cup {"none"}

combinedSelectorMatch(t, n) ==
    IF t.first = NilMatch THEN FALSE
    ELSE IF t.combinator = "none" THEN Match(t.first, n)
    ELSE IF t.combinator = " " THEN descendantMatch(t.first, t.second, n)
    ELSE IF t.combinator = ">" THEN childMatch(t.first, t.second, n)
    ELSE IF t.combinator = "+" THEN siblingMatch(t.first, t.second, TRUE, n)
    ELSE IF t.combinator = "~" THEN siblingMatch(t.first, t.second, FALSE, n)
    ELSE FALSE

Match(m, n) ==
    CASE m.kind = "tag" -> Type(n) = ElementNode /\ Data(n) = m.tag
      [] m.kind = "class" -> matchAttribute(n, <<"c", "l", "a", "s", "s">>, <<"~", "=">>, m.class)
      [] m.kind = "id" -> matchAttribute(n, <<"i", "d">>, <<"=">>, m.id)
      [] m.kind = "attr" -> attrSelectorMatch(m, n)
      [] m.kind = "relative" -> relativePseudoClassSelectorMatch(m, n)
      [] m.kind = "contains" -> containsPseudoClassSelectorMatch(m, n)
      [] m.kind = "regexp" -> regexpPseudoClassSelectorMatch(m, n)
      [] m.kind = "nth" -> nthPseudoClassSelectorMatch(m, n)
      [] m.kind = "onlychild" -> onlyChildMatch(m.ofType, n)
      [] m.kind = "input" -> inputMatch(n)
      [] m.kind = "empty" -> emptyElementMatch(n)
      [] m.kind = "root" -> rootMatch(n)
      [] m.kind = "compound" -> compoundSelectorMatch(m, n)
      [] m.kind = "combined" -> combinedSelectorMatch(m, n)

(***************************************************************************)
(* Selector: the compiled group as a function of a node                    *)
(***************************************************************************)
\* s(n) for the Selector Compile returns
SelectorMatch(selector, n) == selectorGroupMatch(unionMatch(selector), n)

RECURSIVE matchAllInto(_, _, _)
RECURSIVE matchAllSiblings(_, _, _)
\* the child loop of matchAllInto from child on
matchAllSiblings(selector, child, storage) ==
    IF child = Nil THEN storage
    ELSE matchAllSiblings(selector, NextSibling(child), matchAllInto(selector, child, storage))

matchAllInto(selector, n, storage) ==
    matchAllSiblings(selector, FirstChild(n),
        IF SelectorMatch(selector, n) THEN Append(storage, n) ELSE storage)

\* a traversal that leaves out the node it starts from
MatchAllBelow(selector, n) == matchAllSiblings(selector, FirstChild(n), <<>>)

MatchAll(selector, n) == matchAllInto(selector, n, <<>>)

RECURSIVE MatchFirst(_, _)
RECURSIVE matchFirstSiblings(_, _)
matchFirstSiblings(selector, c) ==
    IF c = Nil THEN Nil
    ELSE LET m == MatchFirst(selector, c)
         IN  IF m # Nil THEN m ELSE matchFirstSiblings(selector, NextSibling(c))

\* a search that looks below a node before it looks at the node
MatchFirstBelowFirst(selector, n) ==
    LET m == matchFirstSiblings(selector, FirstChild(n))
    IN  IF m # Nil THEN m ELSE IF SelectorMatch(selector, n) THEN n ELSE Nil

MatchFirst(selector, n) ==
    IF SelectorMatch(selector, n) THEN n ELSE matchFirstSiblings(selector, FirstChild(n))

RECURSIVE Filter(_, _)
Filter(selector, nodes) ==
    IF nodes = <<>> THEN <<>>
    ELSE (IF SelectorMatch(selector, Head(nodes)) THEN <<Head(nodes)>> ELSE <<>>)
         \o Filter(selector, Tail(nodes))

\* var maxSpec Specificity; found bool
NoMatch == [found |-> FALSE, specificity |-> Specificity(0, 0, 0)]

RECURSIVE matchWithSpecificityFrom(_, _, _, _)
\* for _, sel := range s, from the k-th chain on
matchWithSpecificityFrom(selector, element, k, out) ==
    IF k > Len(selector) THEN out
    ELSE matchWithSpecificityFrom(selector, element, k + 1,
            IF Match(selector[k].match, element)
            THEN [found |-> TRUE,
                  specificity |-> IF Less(out.specificity, selector[k].Specificity)
                                  THEN selector[k].Specificity
                                  ELSE out.specificity]
            ELSE out)

\* the greatest specificity of all chains, matching or not
MatchWithSpecificityOfAllChains(selector, element) ==
    [found |-> \E k \in DOMAIN selector : Match(selector[k].match, element),
     specificity |-> maximumSpecificity(selector)]

MatchWithSpecificity(selector, element) ==
    matchWithSpecificityFrom(selector, element, 1, NoMatch)

MatchDetail(pseudoElement, specificity) ==
    [PseudoElement |-> pseudoElement, Specificity |-> specificity]

RECURSIVE matchDetailsFrom(_, _, _)
matchDetailsFrom(selector, element, k) ==
    IF k > Len(selector) THEN <<>>
    ELSE (IF Match(selector[k].match, element)
          THEN <<MatchDetail(selector[k].PseudoElement, selector[k].Specificity)>>
          ELSE <<>>)
         \o matchDetailsFrom(selector, element, k + 1)

\* the pair MatchDetails returns: len(out) > 0, out
MatchDetails(selector, element) ==
    With(matchDetailsFrom(selector, element, 1), LAMBDA out :
        [found |-> Len(out) > 0, details |-> out])

(***************************************************************************)
(* Documents.  A document is built from a parent vector (par[i] < i, the   *)
(* children of a node in increasing order) and a kind per node.            *)
(***************************************************************************)
KindDocument == [Type |-> DocumentNode, Data |-> <<>>, Attr |-> <<>>]

KindA == [Type |-> ElementNode, Data |-> <<"a">>, Attr |-> <<>>]

KindB == [Type |-> ElementNode, Data |-> <<"b">>, Attr |-> <<>>]

KindText == [Type |-> TextNode, Data |-> <<"a">>, Attr |-> <<>>]

KindComment == [Type |-> CommentNode, Data |-> <<"a">>, Attr |-> <<>>]

\* html.Attribute
Attribute(key, val) == [Key |-> key, Val |-> val]

\* <a k="v">
ElementWith(key, val) ==
    [Type |-> ElementNode, Data |-> <<"a">>, Attr |-> <<Attribute(key, val)>>]

Min(S) == CHOOSE x \in S : \A y \in S : x <= y

Max(S) == CHOOSE x \in S : \A y \in S : x >= y

\* par[1] = Nil; kinds[i] is the kind of node i
MakeDoc(par, kinds) ==
    LET N == Len(kinds)
        kidsOf(i) == {c \in 1..N : par[c] = i}
        after(i) == {c \in kidsOf(par[i]) : c > i}
        before(i) == {c \in kidsOf(par[i]) : c < i}
    IN  [Type |-> [i \in 1..N |-> kinds[i].Type],
         Data |-> [i \in 1..N |-> kinds[i].Data],
         Attr |-> [i \in 1..N |-> kinds[i].Attr],
         Parent |-> [i \in 1..N |-> par[i]],
         FirstChild |-> [i \in 1..N |-> IF kidsOf(i) = {} THEN Nil ELSE Min(kidsOf(i))],
         LastChild |-> [i \in 1..N |-> IF kidsOf(i) = {} THEN Nil ELSE Max(kidsOf(i))],
         NextSibling |-> [i \in 1..N |->
                            IF par[i] = Nil \/ after(i) = {} THEN Nil ELSE Min(after(i))],
         PrevSibling |-> [i \in 1..N |->
                            IF par[i] = Nil \/ before(i) = {} THEN Nil ELSE Max(before(i))]]

RECURSIVE PathToRoot(_, _)
\* node j and its ancestors under the parent vector par
PathToRoot(par, j) == IF par[j] = Nil THEN {j} ELSE {j} \cup PathToRoot(par, par[j])

\* the parent vectors of the ordered trees of n nodes, the nodes numbered in
\* document order: a node hangs below its predecessor or below one of the
\* predecessor's ancestors
ParentVectors(n) ==
    {par \in [1..n -> 0..n] :
        /\ par[1] = Nil
        /\ \A i \in 2..n : par[i] >= 1 /\ par[i] < i
        /\ \A i \in 3..n : par[i] \in PathToRoot(par, i - 1)}

\* only elements and documents have children
WellFormed(par, kinds) ==
    \A i \in 2..Len(kinds) : kinds[par[i]].Type \in {ElementNode, DocumentNode}

\* the documents of up to maxNodes nodes, root of a kind in rootKinds
Documents(maxNodes, rootKinds, kindSet) ==
    UNION {
        {MakeDoc(par, kinds) :
            par \in ParentVectors(n),
            kinds \in {k \in [1..n -> rootKinds \cup kindSet] :
                          /\ k[1] \in rootKinds
                          /\ \A i \in 2..n : k[i] \in kindSet}}
        : n \in 1..maxNodes}

\* the flat documents: a root and up to maxKids children
FlatDocuments(maxKids, rootKinds, kindSet) ==
    UNION {
        {MakeDoc([i \in 1..(n + 1) |-> IF i = 1 THEN Nil ELSE 1], kinds) :
            kinds \in {k \in [1..(n + 1) -> rootKinds \cup kindSet] :
                          /\ k[1] \in rootKinds
                          /\ \A i \in 2..(n + 1) : k[i] \in kindSet}}
        : n \in 1..maxKids}

TrivialDoc == MakeDoc(<<Nil>>, <<KindDocument>>)

(***************************************************************************)
(* State                                                                   *)
(***************************************************************************)
NotYet == [selector |-> NoSelector, err |-> "not compiled", leftover |-> 0, i |-> 0]

NoOperands == <<Specificity(0, 0, 0), Specificity(0, 0, 0), Specificity(0, 0, 0)>>

VARIABLES
    sel,        \* the selector text handed to Compile
    pc,         \* "input", "compiled", then the operation applied last
    compiled,   \* the outcome of Compile(sel)
    serialized, \* the text String() returned for the compiled group
    reparsed,   \* the outcome of Compile(serialized)
    filtered,   \* the nodes Filter returned for the nodes of doc, in order
    root,       \* the node handed to MatchAll and MatchFirst
    matched,    \* the nodes MatchAll(root) returned
    first,      \* the node MatchFirst(root) returned, or Nil
    withSpecificity, \* what MatchWithSpecificity(root) returned
    details,    \* what MatchDetails(root) returned
    operands,   \* three specificities
    less,       \* Less on the pairs of operands
    parser      \* the parser in the loops of parseSelector: its position and result

vars == <<sel, pc, compiled, serialized, reparsed, doc, filtered, root, matched, first,
          withSpecificity, details, operands, less, parser>>

\* the state before any operation: the inputs, and nothing computed yet
StartWith(text, document, specificities, at) ==
    /\ sel = text
    /\ doc = document
    /\ pc = at
    /\ compiled = NotYet
    /\ serialized = <<>>
    /\ reparsed = NotYet
    /\ filtered = <<>>
    /\ root = Nil
    /\ matched = <<>>
    /\ first = Nil
    /\ withSpecificity = NoMatch
    /\ details = [found |-> FALSE, details |-> <<>>]
    /\ operands = specificities
    /\ less = <<>>
    /\ parser = Ok(0, zeroSelector)

Start(text, document) == StartWith(text, document, NoOperands, "input")

DoCompile ==
    /\ pc = "input"
    /\ compiled' = Compile(sel)
    /\ pc' = "compiled"
    /\ UNCHANGED <<sel, serialized, reparsed, doc, filtered, root, matched, first,
                   withSpecificity, details, operands, less, parser>>

Serializable(c) ==
    c.err = "" /\ \A k \in DOMAIN c.selector : ~StringPanics(c.selector[k].match)

DoSerialize ==
    /\ pc = "compiled"
    /\ Serializable(compiled)
    /\ serialized' = selectorGroupString(compiled.selector)
    /\ pc' = "serialized"
    /\ UNCHANGED <<sel, compiled, reparsed, doc, filtered, root, matched, first,
                   withSpecificity, details, operands, less, parser>>

DoReparse ==
    /\ pc = "serialized"
    /\ reparsed' = Compile(serialized)
    /\ pc' = "reparsed"
    /\ UNCHANGED <<sel, compiled, serialized, doc, filtered, root, matched, first,
                   withSpecificity, details, operands, less, parser>>

AllNodes == [n \in Nodes |-> n]

DoFilter ==
    /\ pc = "compiled"
    /\ compiled.err = ""
    /\ filtered' = Filter(compiled.selector, AllNodes)
    /\ pc' = "filtered"
    /\ UNCHANGED <<sel, compiled, serialized, reparsed, doc, root, matched, first,
                   withSpecificity, details, operands, less, parser>>

DoMatchAll(n) ==
    /\ pc = "compiled"
    /\ compiled.err = ""
    /\ root' = n
    /\ matched' = MatchAll(compiled.selector, n)
    /\ pc' = "matchedAll"
    /\ UNCHANGED <<sel, compiled, serialized, reparsed, doc, filtered, first,
                   withSpecificity, details, operands, less, parser>>

DoMatchFirst ==
    /\ pc = "matchedAll"
    /\ first' = MatchFirst(compiled.selector, root)
    /\ pc' = "matchedFirst"
    /\ UNCHANGED <<sel, compiled, serialized, reparsed, doc, filtered, root, matched,
                   withSpecificity, details, operands, less, parser>>

DoMatchWithSpecificity(n) ==
    /\ pc = "compiled"
    /\ compiled.err = ""
    /\ root' = n
    /\ withSpecificity' = MatchWithSpecificity(compiled.selector, n)
    /\ pc' = "matchedWithSpecificity"
    /\ UNCHANGED <<sel, compiled, serialized, reparsed, doc, filtered, matched, first,
                   details, operands, less, parser>>

DoMatchDetails(n) ==
    /\ pc = "compiled"
    /\ compiled.err = ""
    /\ root' = n
    /\ details' = MatchDetails(compiled.selector, n)
    /\ pc' = "matchedDetails"
    /\ UNCHANGED <<sel, compiled, serialized, reparsed, doc, filtered, matched, first,
                   withSpecificity, operands, less, parser>>

(***************************************************************************)
(* Spec: compile, serialize, re-parse over all short texts                 *)
(***************************************************************************)
MaxLen == 3

Alphabet == {"a", "#", ".", "[", "]", "=", ":", " ", ">", "+", "~", ",", "*", "(", ")", "\\"}

RECURSIVE TextsUpTo(_)
TextsUpTo(n) ==
    IF n = 0 THEN {<<>>}
    ELSE LET shorter == TextsUpTo(n - 1)
         IN  shorter \cup {Append(t, c) : t \in {u \in shorter : Len(u) = n - 1}, c \in Alphabet}

Heads == {<<>>, <<"a">>, <<"[", "a">>, <<":">> \o name_not \o <<"(">>}

Init == \E h \in Heads, b \in TextsUpTo(MaxLen) : Start(h \o b, TrivialDoc)

Next == DoCompile \/ DoSerialize \/ DoReparse

Spec == Init /\ [][Next]_vars

(***************************************************************************)
(* SpecTraverse: MatchAll, MatchFirst and Filter over whole documents      *)
(***************************************************************************)
MaxNodes == 4

TraverseTexts ==
    {<<"*">>, <<"a", ",", "b">>, <<"a", " ", "a">>, <<"a", ">", "b", ",", "*", "+", "a">>,
     <<"b", ",", "a", " ", "b", ",", "a", "~", "*">>}

TraverseDocuments ==
    Documents(MaxNodes, {KindDocument}, {KindA, KindB, KindText, KindComment})

InitTraverse == \E t \in TraverseTexts, d \in TraverseDocuments : Start(t, d)

NextTraverse == DoCompile \/ DoFilter \/ (\E n \in Nodes : DoMatchAll(n)) \/ DoMatchFirst

SpecTraverse == InitTraverse /\ [][NextTraverse]_vars

(***************************************************************************)
(* SpecMatch: the combinators and the positional pseudo-classes, node by   *)
(* node (Filter over all nodes of the document)                            *)
(***************************************************************************)
MaxKids == 3

MaxCoef == 2

Compounds == {<<"*">>, <<"a">>, <<"b">>}

\* the chains left c right
ChainsOf(lefts, combinators, rights) ==
    {l \o <<c>> \o r : l \in lefts, c \in combinators, r \in rights}

AncestorCombinators == {" ", ">"}

SiblingCombinators == {"+", "~"}

\* chains of one, two and three compounds
AncestorChains ==
    LET two == ChainsOf(Compounds, AncestorCombinators, Compounds)
    IN  Compounds \cup two \cup ChainsOf(two, AncestorCombinators, Compounds)

ElementDocuments == Documents(MaxNodes, {KindDocument}, {KindA, KindB})

containsA == <<":">> \o name_contains \o <<"(", "a", ")">>

SiblingSides == Compounds \cup {containsA}

SiblingChains == ChainsOf(SiblingSides, SiblingCombinators, SiblingSides)

SiblingDocuments == FlatDocuments(MaxKids, {KindA}, {KindA, KindB, KindText, KindComment})

NthNames == {name_nth_child, name_nth_last_child, name_nth_of_type, name_nth_last_of_type}

Coefficients == (0 - MaxCoef)..MaxCoef

\* the decimal text of k, 0 <= k <= 9
DigitText(k) == <<Digits[k + 1]>>

\* the text an+b in the usual short forms: n, -n, 2n, -2n; +1, -1 or nothing
NthArgument(a, b) ==
    (IF a = 1 THEN <<>> ELSE IF a = -1 THEN <<"-">>
     ELSE IF a < 0 THEN <<"-">> \o DigitText(0 - a) ELSE DigitText(a))
    \o <<"n">>
    \o (IF b = 0 THEN <<>> ELSE IF b < 0 THEN <<"-">> \o DigitText(0 - b)
        ELSE <<"+">> \o DigitText(b))

NthText(name, a, b) == <<":">> \o name \o <<"(">> \o NthArgument(a, b) \o <<")">>

NthTexts == {NthText(name, a, b) : name \in NthNames, a \in Coefficients \ {0}, b \in Coefficients}

NthDocuments == FlatDocuments(MaxKids, {KindDocument, KindA}, {KindA, KindB, KindText})

InitMatch ==
    \/ \E t \in AncestorChains, d \in ElementDocuments : Start(t, d)
    \/ \E t \in SiblingChains, d \in SiblingDocuments : Start(t, d)
    \/ \E t \in NthTexts, d \in NthDocuments : Start(t, d)

NextMatch == DoCompile \/ DoFilter

SpecMatch == InitMatch /\ [][NextMatch]_vars

(***************************************************************************)
(* Properties of Spec                                                      *)
(***************************************************************************)
RECURSIVE BasicMatcher(_)
\* built only from tag, id, class and attribute clauses, compounds without
\* pseudo-element and combinators
BasicMatcher(m) ==
    IF m.kind = "compound"
    THEN m.pseudoElement = NoName /\ \A k \in DOMAIN m.selectors : BasicMatcher(m.selectors[k])
    ELSE IF m.kind = "combined"
    THEN BasicMatcher(m.first) /\ (m.second # NilMatch => BasicMatcher(m.second))
    ELSE m.kind \in {"tag", "id", "class", "attr"}

BasicSelector(selector) == \A k \in DOMAIN selector : BasicMatcher(selector[k].match)

\* C1: for every text that parses to one chain built only from tag, id, class
\* and attribute clauses, compounds and the four combinators, re-parsing the
\* serialized text succeeds and yields a selector equal to the first parse.
C1_RoundTrip ==
    (pc = "reparsed" /\ Len(compiled.selector) = 1 /\ BasicSelector(compiled.selector))
        => (reparsed.err = "" /\ reparsed.selector = compiled.selector)

\* C2: Compile ends with a selector or with an error, and the parser never
\* reads the text at an index outside 0..len(s)-1.
C2_SelectorOrError ==
    pc # "input"
        => /\ compiled.err # PANIC
           /\ (compiled.err = "") # (compiled.selector = NoSelector)

\* C3: Compile returns a selector only if the group parser consumed the whole
\* text; when the group parser succeeds and stops at i < len(sel), at a
\* character that is not a comma, Compile returns no selector and an error
\* reporting exactly len(sel) - i bytes left over.
C3_LeftOver ==
    pc # "input"
        => LET r == parseSelectorGroup(sel, 0)
           IN  /\ compiled.selector # NoSelector => (r.err = "" /\ r.i = Len(sel))
               /\ compiled.err = "" => (r.err = "" /\ r.i = Len(sel))
               /\ (r.err = "" /\ r.i < Len(sel))
                    => /\ compiled.selector = NoSelector
                       /\ compiled.err = "bytes left over"
                       /\ compiled.leftover = Len(sel) - r.i
                       /\ At(sel, r.i) # ","

\* a chain followed by ')': the group parser stops in front of it
C3_Witness ==
    /\ pc = "compiled"
    /\ sel = <<"a", ",", "a", ")">>
    /\ compiled.err = "bytes left over"
    /\ compiled.leftover = 1
    /\ compiled.selector = NoSelector

RECURSIVE ChainNodes(_)
\* the combinedSelector values in m, those of nested groups included
ChainNodes(m) ==
    IF m.kind = "combined"
    THEN {m} \cup ChainNodes(m.first) \cup ChainNodes(m.second)
    ELSE IF m.kind = "compound"
    THEN UNION {ChainNodes(m.selectors[k]) : k \in DOMAIN m.selectors}
    ELSE IF m.kind = "relative"
    THEN UNION {ChainNodes(m.match[k]) : k \in DOMAIN m.match}
    ELSE {}

ChainNodesOf(c) == UNION {ChainNodes(c.selector[k].match) : k \in DOMAIN c.selector}

WellFormedChains(c) ==
    c.err = ""
        => /\ \A k \in DOMAIN c.selector : c.selector[k].match # NilMatch
           /\ \A t \in ChainNodesOf(c) :
                 /\ t.combinator \in Combinators \cup {"none"}
                 /\ t.first # NilMatch
                 /\ t.combinator # "none" => t.second # NilMatch
                 /\ ~combinedSelectorPanics(t)

\* C28: every chain node of an accepted selector has a combinator among
\* none, ` `, `>`, `+`, `~`, a first operand, and a second operand unless the
\* combinator is none; so Match never reaches panic("unknown combinator")
\* and never finds an operand missing.
C28_ChainNodes ==
    /\ pc \in {"compiled", "serialized", "reparsed"} => WellFormedChains(compiled)
    /\ pc = "reparsed" => WellFormedChains(reparsed)

\* `[a]~a`: a chain node with `~` between an attribute test and a type
C28_Witness ==
    /\ pc = "compiled"
    /\ sel = <<"[", "a", "]", "~", "a">>
    /\ compiled.err = ""
    /\ \E t \in ChainNodesOf(compiled) :
          /\ t.combinator = "~"
          /\ t.first.kind = "compound"
          /\ t.second.kind = "compound"

(***************************************************************************)
(* Properties of SpecTraverse                                              *)
(***************************************************************************)
RangeOf(f) == {f[k] : k \in DOMAIN f}

RECURSIVE Ancestors(_)
\* the strict ancestors of n, following the parent links up to the root
Ancestors(n) == IF Parent(n) = Nil THEN {} ELSE {Parent(n)} \cup Ancestors(Parent(n))

Subtree(r) == {n \in Nodes : n = r \/ r \in Ancestors(n)}

RECURSIVE PrecedingSiblings(_)
PrecedingSiblings(n) ==
    IF PrevSibling(n) = Nil THEN {} ELSE {PrevSibling(n)} \cup PrecedingSiblings(PrevSibling(n))

\* x comes before y in document order: x is an ancestor of y, or the branch
\* of x leaves their common ancestor before the branch of y
Precedes(x, y) ==
    /\ x # y
    /\ \/ x \in Ancestors(y)
       \/ /\ y \notin Ancestors(x)
          /\ \E bx \in Ancestors(x) \cup {x}, by \in Ancestors(y) \cup {y} :
                bx \in PrecedingSiblings(by)

\* C4: MatchAll(root) returns exactly the nodes of the subtree rooted at root
\* (root included) that the selector matches, each once, in document order.
C4_MatchAllPreOrder ==
    pc \in {"matchedAll", "matchedFirst"}
        => /\ RangeOf(matched) = {n \in Subtree(root) : SelectorMatch(compiled.selector, n)}
           /\ \A i, j \in DOMAIN matched : i < j => Precedes(matched[i], matched[j])

\* a proper subtree with several matches at two depths, a node of it that
\* does not match and a match outside it
C4_Witness ==
    /\ pc = "matchedAll"
    /\ root # 1
    /\ Len(matched) >= 2
    /\ \E i, j \in DOMAIN matched : matched[i] \in Ancestors(matched[j])
    /\ \E n \in Nodes \ Subtree(root) : SelectorMatch(compiled.selector, n)

\* C5: MatchFirst(root) returns the first node of MatchAll(root), and nil
\* exactly when MatchAll(root) is empty.
C5_MatchFirst ==
    pc = "matchedFirst"
        => /\ (first = Nil) <=> (matched = <<>>)
           /\ matched # <<>> => first = matched[1]

\* the first match lies below root and is not the only one
C5_Witness ==
    /\ pc = "matchedFirst"
    /\ first # Nil
    /\ first # root
    /\ Parent(first) # root
    /\ Len(matched) >= 2

RECURSIVE SplitAt(_, _)
\* the pieces of text between the occurrences of sep
SplitAt(text, sep) ==
    IF \A k \in DOMAIN text : text[k] # sep THEN <<text>>
    ELSE LET k == Min({j \in DOMAIN text : text[j] = sep})
         IN  <<SubSeq(text, 1, k - 1)>> \o SplitAt(SubSeq(text, k + 1, Len(text)), sep)

RECURSIVE JoinWith(_, _)
JoinWith(pieces, sep) ==
    IF Len(pieces) = 1 THEN pieces[1]
    ELSE pieces[1] \o <<sep>> \o JoinWith(Tail(pieces), sep)

\* the selector compiled from text matches n
MatchesText(text, n) == SelectorMatch(Compile(text).selector, n)

\* C6: a group matches a node iff one of its comma-separated chains matches
\* it, and permuting the chains changes neither the match of any node nor the
\* result of MatchAll.
C6_GroupIsUnion ==
    LET chains == SplitAt(sel, ",")
        alone == [k \in DOMAIN chains |-> Compile(chains[k]).selector]
        permuted == [f \in {g \in Permutations(DOMAIN chains) : \E k \in DOMAIN chains : g[k] # k} |->
                        Compile(JoinWith([k \in DOMAIN chains |-> chains[f[k]]], ",")).selector]
    IN  /\ pc = "filtered"
            => /\ \A n \in Nodes :
                    (n \in RangeOf(filtered)) <=> \E k \in DOMAIN chains : SelectorMatch(alone[k], n)
               /\ \A f \in DOMAIN permuted : Filter(permuted[f], AllNodes) = filtered
        /\ pc = "matchedAll"
            => \A f \in DOMAIN permuted : MatchAll(permuted[f], root) = matched

\* `b, a b, a ~ *`: a node only the first chain matches and a node only the
\* last chain matches
C6_Witness ==
    /\ pc = "filtered"
    /\ Len(SplitAt(sel, ",")) = 3
    /\ \E n \in RangeOf(filtered) :
            MatchesText(SplitAt(sel, ",")[1], n) /\ ~MatchesText(SplitAt(sel, ",")[3], n)
    /\ \E n \in RangeOf(filtered) :
            ~MatchesText(SplitAt(sel, ",")[1], n) /\ ~MatchesText(SplitAt(sel, ",")[2], n)

C8_AncestorCombinators ==
    pc = "filtered"
        => \A l \in AncestorChains, r \in Compounds :
              LET L == Compile(l).selector
                  R == Compile(r).selector
              IN  /\ sel = l \o <<" ">> \o r
                      => \A n \in Nodes :
                            (n \in RangeOf(filtered))
                                <=> /\ SelectorMatch(R, n)
                                    /\ \E p \in Ancestors(n) : SelectorMatch(L, p)
                  /\ sel = l \o <<">">> \o r
                      => \A n \in Nodes :
                            (n \in RangeOf(filtered))
                                <=> /\ SelectorMatch(R, n)
                                    /\ Parent(n) # Nil
                                    /\ SelectorMatch(L, Parent(n))

\* `a b>b`: a node the chain matches, its parent a `b` and its grandparent an
\* `a`, and a `b` child of an `a` the chain does not match
C8_Witness ==
    /\ pc = "filtered"
    /\ sel = <<"a", " ", "b", ">", "b">>
    /\ \E n \in RangeOf(filtered) : Data(Parent(n)) = <<"b">> /\ Data(Parent(Parent(n))) = <<"a">>
    /\ \E n \in Nodes \ RangeOf(filtered) :
            /\ Data(n) = <<"b">>
            /\ Parent(n) # Nil
            /\ Data(Parent(n)) = <<"a">>

\* the element siblings before n, nearest first
ElementsBefore(n) == {c \in PrecedingSiblings(n) : Type(c) = ElementNode}

NearestElementBefore(n) ==
    CHOOSE c \in ElementsBefore(n) : \A o \in ElementsBefore(n) : o = c \/ o \in PrecedingSiblings(c)

\* C9: `L + R` matches n iff R matches n and the nearest preceding element
\* sibling of n exists and matches L; `L ~ R` matches n iff R matches n and
\* at least one preceding element sibling of n matches L.
C9_SiblingCombinators ==
    pc = "filtered"
        => \A l \in SiblingSides, r \in SiblingSides :
              LET L == Compile(l).selector
                  R == Compile(r).selector
              IN  /\ sel = l \o <<"+">> \o r
                      => \A n \in Nodes :
                            (n \in RangeOf(filtered))
                                <=> /\ SelectorMatch(R, n)
                                    /\ ElementsBefore(n) # {}
                                    /\ SelectorMatch(L, NearestElementBefore(n))
                  /\ sel = l \o <<"~">> \o r
                      => \A n \in Nodes :
                            (n \in RangeOf(filtered))
                                <=> /\ SelectorMatch(R, n)
                                    /\ \E c \in ElementsBefore(n) : SelectorMatch(L, c)

\* the element children of n's parent that count for the variant
Counted(n, ofType) ==
    {c \in Nodes : Parent(c) = Parent(n) /\ Type(c) = ElementNode /\ (ofType => Data(c) = Data(n))}

\* the 1-based position of n among them, from the front or from the back
Position(n, last, ofType) ==
    IF last
    THEN Cardinality({c \in Counted(n, ofType) : c = n \/ n \in PrecedingSiblings(c)})
    ELSE Cardinality({c \in Counted(n, ofType) : c = n \/ c \in PrecedingSiblings(n)})

IsLast(name) == name \in {name_nth_last_child, name_nth_last_of_type}

IsOfType(name) == name \in {name_nth_of_type, name_nth_last_of_type}

\* there is an integer k >= 0 with i = a*k + b
Solvable(i, a, b) == \E k \in 0..(Abs(i) + Abs(b)) : i = a * k + b

\* the statement of C10 for the element nodes in scope
NthAgrees(scope) ==
    pc = "filtered"
        => \A name \in NthNames, a \in Coefficients \ {0}, b \in Coefficients :
              sel = NthText(name, a, b)
                  => \A n \in scope :
                        (n \in RangeOf(filtered))
                            <=> Solvable(Position(n, IsLast(name), IsOfType(name)), a, b)

attr_class == <<"c", "l", "a", "s", "s">>

\* <a class="t1"> and <a class="t1 t2">
KindT1 == ElementWith(attr_class, <<"t", "1">>)

KindT12 == ElementWith(attr_class, <<"t", "1", " ", "t", "2">>)

\* X of `X:not(G)`; the empty text is `:not(G)` alone
NotSubjects == {<<>>, <<"*">>, <<"a">>, <<".", "t", "1">>}

\* G of `X:not(G)`, as the list of its alternatives
NotGroups ==
    {<< <<"a">> >>, << <<".", "t", "2">> >>, << <<"*">> >>, << <<"a", ">", "b">> >>,
     << <<"b">>, <<".", "t", "2">> >>, << <<"b">>, <<"a", ">", "*">> >>}

NotText(x, alts) == x \o <<":">> \o name_not \o <<"(">> \o JoinWith(alts, ",") \o <<")">>

NotTexts == {NotText(x, alts) : x \in NotSubjects, alts \in NotGroups}

NotDocuments == FlatDocuments(MaxKids, {KindA}, {KindB, KindT1, KindT12, KindText})

\* terminated comments: /*x*/, /**/ and /***/
Comments == {<<"/", "*">> \o body \o <<"*", "/">> : body \in {<<"x">>, <<>>, <<"*">>}}

\* what may stand beside a combinator, with the same text without comments
Paddings ==
    {<< <<>>, <<>> >>, << <<" ">>, <<" ">> >>}
        \cup {<<cm, <<" ">> >> : cm \in Comments}
        \cup {<< <<" ", "/", "*", "x", "*", "/">>, <<" ", " ">> >>,
              << <<"/", "*", "x", "*", "/", " ">>, <<" ", " ">> >>}

\* the combinators as they are written; the descendant combinator is the
\* padding alone
WrittenCombinators == {<<>>, <<">">>, <<"+">>, <<"~">>}

CommentLefts == {<<"a">>}

CommentRights == {<<"b">>, <<"*">>}

\* l pre c post r, part = 1 for the text with the comments and 2 without
CommentChain(l, pre, c, post, r, part) == l \o pre[part] \o c \o post[part] \o r

CommentShapes ==
    {sh \in CommentLefts \X Paddings \X WrittenCombinators \X Paddings \X CommentRights :
        sh[3] # <<>> \/ sh[2][1] # <<>> \/ sh[4][1] # <<>>}

CommentTexts == {CommentChain(sh[1], sh[2], sh[3], sh[4], sh[5], 1) : sh \in CommentShapes}

CommentDocuments == FlatDocuments(MaxKids, {KindA}, {KindA, KindB})

attr_id == <<"i", "d">>

\* the keys and the operands as the selector writes them
WrittenKeys == {<<"a">>, <<"A">>}

WrittenOperands == {<<"a">>, <<"A">>}

\* the operators of an attribute selector; <<>> is [k]
WrittenOperators ==
    {<<>>, <<"=">>, <<"!", "=">>, <<"~", "=">>, <<"|", "=">>, <<"^", "=">>, <<"$", "=">>,
     <<"*", "=">>}

AttributeText(k, op, v) == <<"[">> \o k \o op \o (IF op = <<>> THEN <<>> ELSE v) \o <<"]">>

AttributeTexts ==
    {AttributeText(k, op, v) : k \in WrittenKeys, op \in WrittenOperators, v \in WrittenOperands}
        \cup {<<"#">> \o v : v \in WrittenOperands}
        \cup {<<".">> \o v : v \in WrittenOperands}

\* the attributes of the elements of the documents
Attributes ==
    {Attribute(k, v) : k \in {<<"a">>, <<"A">>, attr_class, attr_id},
                       v \in {<<"a">>, <<"A">>, <<"a", "-", "A">>}}

\* an element with up to two attributes, below an element without any and
\* beside a text node
AttributeDocuments ==
    {MakeDoc(<<Nil, 1, 1>>,
             <<KindA, [Type |-> ElementNode, Data |-> <<"a">>, Attr |-> attrs], KindText>>) :
        attrs \in {<<>>} \cup {<<x>> : x \in Attributes} \cup (Attributes \X Attributes)}

\* the longest attribute value of the token lists
MaxValue == 3

\* the operand of ~= as it is written, and the operand it denotes
WrittenTokens ==
    {<< <<"a">>, <<"a">> >>,
     << <<"a", "a">>, <<"a", "a">> >>,
     << <<"\"", "a", "\"">>, <<"a">> >>,
     << <<"\"", "\"">>, <<>> >>,
     << <<"\"", " ", "\"">>, <<" ">> >>,
     << <<"\"", "a", " ", "\"">>, <<"a", " ">> >>,
     << <<"\"", " ", "a", "\"">>, <<" ", "a">> >>,
     << <<"\"", "a", " ", "a", "\"">>, <<"a", " ", "a">> >>}

IncludesText(written) == AttributeText(<<"a">>, <<"~", "=">>, written)

IncludesTexts == {IncludesText(w[1]) : w \in WrittenTokens} \cup {<<".", "a">>}

RECURSIVE ValuesUpTo(_)
\* the attribute values of at most n characters: the letter a and the five
\* separators
ValuesUpTo(n) ==
    IF n = 0 THEN {<<>>}
    ELSE ValuesUpTo(n - 1)
            \cup {Append(v, c) : v \in {w \in ValuesUpTo(n - 1) : Len(w) = n - 1},
                                 c \in {"a"} \cup WhiteSpace}

IncludesDocuments ==
    {MakeDoc(<<Nil, 1, 1>>, <<KindA, ElementWith(k, v), KindText>>) :
        k \in {<<"a">>, attr_class}, v \in ValuesUpTo(MaxValue)}

InitSelect ==
    \/ \E t \in NotTexts, d \in NotDocuments : Start(t, d)
    \/ \E t \in IncludesTexts, d \in IncludesDocuments : Start(t, d)
    \/ \E t \in AttributeTexts, d \in AttributeDocuments : Start(t, d)
    \/ \E t \in CommentTexts, d \in CommentDocuments : Start(t, d)

NextSelect == DoCompile \/ DoFilter

SpecSelect == InitSelect /\ [][NextSelect]_vars

(***************************************************************************)
(* Properties of SpecSelect                                                *)
(***************************************************************************)
\* C11: `X:not(G)` matches an element node n iff X matches n and no
\* alternative of the group G matches n, and it matches no node that is not
\* an element.
C11_Not ==
    pc = "filtered"
        => \A x \in NotSubjects, alts \in NotGroups :
              sel = NotText(x, alts)
                  => \A n \in Nodes :
                        (n \in RangeOf(filtered))
                            <=> /\ Type(n) = ElementNode
                                /\ x # <<>> => MatchesText(x, n)
                                /\ \A k \in DOMAIN alts : ~MatchesText(alts[k], n)

\* `.t1:not(.t2)` on a document with class="t1", class="t1 t2" and a text
\* node: the first is selected, the other two are not
C11_Witness ==
    /\ pc = "filtered"
    /\ sel = NotText(<<".", "t", "1">>, << <<".", "t", "2">> >>)
    /\ \E n \in RangeOf(filtered) : Attr(n) = KindT1.Attr
    /\ \E n \in Nodes \ RangeOf(filtered) : Attr(n) = KindT12.Attr
    /\ \E n \in Nodes \ RangeOf(filtered) : Type(n) = TextNode

\* each text with comments, with the text that has a space for each comment
CommentCases ==
    {<<CommentChain(sh[1], sh[2], sh[3], sh[4], sh[5], 1),
       CommentChain(sh[1], sh[2], sh[3], sh[4], sh[5], 2)>> : sh \in CommentShapes}

\* C15: a terminated comment where whitespace may stand between two
\* compounds counts as whitespace: the text compiles, and it selects the
\* nodes the text with a space in place of each comment selects; a comment
\* alone between two compounds is the descendant combinator.
C15_CommentIsWhitespace ==
    \A cs \in CommentCases :
        sel = cs[1]
            => /\ pc = "compiled" => compiled.err = ""
               /\ pc = "filtered" => filtered = Filter(Compile(cs[2]).selector, AllNodes)

\* `a +/*x*/ b` selects the b after an a, and `a/*x*/b` selects a b below a
C15_Witness ==
    /\ pc = "filtered"
    /\ \/ sel = <<"a", " ", "+", "/", "*", "x", "*", "/", " ", "b">>
       \/ sel = <<"a", "/", "*", "x", "*", "/", "b">>
    /\ Len(doc.Type) = 3
    /\ filtered = <<3>>

\* the whitespace-separated tokens of s: the maximal runs without whitespace
Tokens(s) ==
    {Slice(s, i, j) : <<i, j>> \in
        {ij \in (0..Len(s)) \X (0..Len(s)) :
            /\ ij[1] < ij[2]
            /\ \A k \in (ij[1] + 1)..ij[2] : s[k] \notin WhiteSpace
            /\ ij[1] = 0 \/ s[ij[1]] \in WhiteSpace
            /\ ij[2] = Len(s) \/ s[ij[2] + 1] \in WhiteSpace}}

\* what each operator asks of an attribute value s, compared byte for byte
ValueTest(op, v, s) ==
    CASE op = <<>> -> TRUE
      [] op \in {<<"=">>, <<"!", "=">>} -> s = v
      [] op = <<"~", "=">> -> v \in Tokens(s)
      [] op = <<"|", "=">> -> s = v \/ \E j \in 0..Len(s) : Slice(s, 0, j) = v \o <<"-">>
      [] op = <<"^", "=">> -> \E j \in 0..Len(s) : Slice(s, 0, j) = v
      [] op = <<"$", "=">> -> \E i \in 0..Len(s) : Slice(s, i, Len(s)) = v
      [] op = <<"*", "=">> -> \E i \in 0..Len(s), j \in 0..Len(s) : i <= j /\ Slice(s, i, j) = v

\* some attribute of n named k, whatever the case, passes the test
SomeAttribute(op, k, v, n) ==
    \E x \in DOMAIN Attr(n) :
        toLowerASCII(Attr(n)[x].Key) = toLowerASCII(k) /\ ValueTest(op, v, Attr(n)[x].Val)

AttributeHolds(op, k, v, n) ==
    /\ Type(n) = ElementNode
    /\ IF op = <<"!", "=">> THEN ~SomeAttribute(op, k, v, n) ELSE SomeAttribute(op, k, v, n)

\* C16: every attribute matcher compares the key of the attribute without
\* regard to ASCII case, compares the value byte for byte, and selects
\* elements only.
C16_AttributeMatchers ==
    pc = "filtered"
        => \A v \in WrittenOperands, n \in Nodes :
              /\ \A k \in WrittenKeys, op \in WrittenOperators :
                    sel = AttributeText(k, op, v)
                        => (n \in RangeOf(filtered) <=> AttributeHolds(op, k, v, n))
              /\ sel = <<"#">> \o v
                    => (n \in RangeOf(filtered) <=> AttributeHolds(<<"=">>, attr_id, v, n))
              /\ sel = <<".">> \o v
                    => (n \in RangeOf(filtered)
                            <=> AttributeHolds(<<"~", "=">>, attr_class, v, n))

\* C17: `[k~=v]`, and `.v` for the attribute class, selects an element iff
\* the whitespace-separated tokens of the value of some attribute named k
\* include v; an operand that is empty or holds whitespace selects nothing.
C17_Includes ==
    pc = "filtered"
        => \A n \in Nodes :
              /\ \A w \in WrittenTokens :
                    sel = IncludesText(w[1])
                        => (n \in RangeOf(filtered)
                                <=> /\ Type(n) = ElementNode
                                    /\ \E x \in DOMAIN Attr(n) :
                                          /\ Attr(n)[x].Key = <<"a">>
                                          /\ w[2] \in Tokens(Attr(n)[x].Val))
              /\ sel = <<".", "a">>
                    => (n \in RangeOf(filtered)
                            <=> /\ Type(n) = ElementNode
                                /\ \E x \in DOMAIN Attr(n) :
                                      /\ Attr(n)[x].Key = attr_class
                                      /\ <<"a">> \in Tokens(Attr(n)[x].Val))

\* each text `[k!=v]` with the text `[k=v]`
NotEqualCases ==
    {<<AttributeText(k, <<"!", "=">>, v), AttributeText(k, <<"=">>, v)>> :
        k \in WrittenKeys, v \in WrittenOperands}

\* C24: `[k!=v]` matches an element iff `[k=v]` does not match it, so also an
\* element without attribute k and one with several attributes k none of
\* which is v; it matches no node that is not an element.
C24_NotEqual ==
    pc = "filtered"
        => \A cs \in NotEqualCases :
              sel = cs[1]
                  => \A n \in Nodes :
                        n \in RangeOf(filtered) <=> (Type(n) = ElementNode /\ ~MatchesText(cs[2], n))

\* `[a!=a]` selected the element without attributes and the element with the
\* two attributes a="A" and a="a-A", and not the text node
C24_Witness ==
    /\ pc = "filtered"
    /\ sel = AttributeText(<<"a">>, <<"!", "=">>, <<"a">>)
    /\ \E n \in RangeOf(filtered) : Attr(n) = <<>>
    /\ \E n \in RangeOf(filtered) :
          Attr(n) = <<Attribute(<<"a">>, <<"A">>), Attribute(<<"a">>, <<"a", "-", "A">>)>>
    /\ \E n \in Nodes \ RangeOf(filtered) : Type(n) = TextNode

(***************************************************************************)
(* SpecSpecificity: the specificity and the pseudo-element the parser      *)
(* records, and what MatchWithSpecificity and MatchDetails report          *)
(***************************************************************************)
MaxClauses == 2

token_id == <<"#", "a">>

token_class == <<".", "a">>

token_attr == <<"[", "a", "]">>

token_before == <<":", ":", "b", "e", "f", "o", "r", "e">>

ClauseTokens == {token_id, token_class, token_attr, token_before}

\* what a compound starts with: nothing, the universal selector, a type
CompoundStarts == {<<>>, <<"*">>, <<"a">>}

RECURSIVE ClauseListsUpTo(_)
ClauseListsUpTo(n) ==
    IF n = 0 THEN {<<>>}
    ELSE UNION {{cl, Append(cl, c)} : cl \in ClauseListsUpTo(n - 1), c \in ClauseTokens}

\* a compound as its start and the list of its clauses
CompoundShapes ==
    {sh \in CompoundStarts \X ClauseListsUpTo(MaxClauses) : sh[1] # <<>> \/ sh[2] # <<>>}

CompoundText(shape) == shape[1] \o Join(shape[2])

ChainLefts ==
    {<< <<"a">>, <<>> >>, << <<"*">>, <<token_class>> >>, << <<"a">>, <<token_id>> >>,
     << <<"a">>, <<token_before>> >>}

ChainText(l, c, r) == CompoundText(l) \o <<c>> \o CompoundText(r)

SpecificityTexts ==
    {CompoundText(sh) : sh \in CompoundShapes}
        \cup {ChainText(l, c, r) : l \in ChainLefts, c \in Combinators, r \in CompoundShapes}

\* <a id="a" class="a" a="">
KindFull ==
    [Type |-> ElementNode, Data |-> <<"a">>,
     Attr |-> <<Attribute(<<"i", "d">>, <<"a">>), Attribute(attr_class, <<"a">>),
                Attribute(<<"a">>, <<>>)>>]

SpecificityDocument == MakeDoc(<<Nil, 1, 1>>, <<KindFull, KindFull, KindA>>)

\* groups whose chains differ in specificity
GroupTexts ==
    {<<"a", ",", ".", "t", "1">>,
     <<".", "t", "1", ",", "a">>,
     <<"#", "a", ",", "*", ",", "a", ".", "t", "1", ",", "a">>,
     <<"b", ",", "a", ".", "t", "1", ",", "*">>,
     <<"a", " ", "b", ",", ".", "t", "1">>,
     <<"*", ",", "b">>}

GroupDocuments == FlatDocuments(MaxKids, {KindA}, {KindA, KindB, KindT1, KindText})

\* chains for the group of a relative pseudo-class, with their specificities
RelativeChains ==
    {<<token_id, <<1, 0, 0>> >>,
     <<token_class, <<0, 1, 0>> >>,
     << <<"a">>, <<0, 0, 1>> >>,
     << <<"*">>, <<0, 0, 0>> >>,
     <<token_class \o token_class, <<0, 2, 0>> >>,
     << <<"a", " ", "a">>, <<0, 0, 2>> >>,
     << <<":", "n", "o", "t", "(", "#", "a", ")">>, <<1, 0, 0>> >>}

\* groups of one or two chains
RelativeGroups == {<<c>> : c \in RelativeChains} \cup {<<c, d>> : c, d \in RelativeChains}

\* what stands before the pseudo-class, with its specificity
RelativeSubjects == {<< <<>>, <<0, 0, 0>> >>, << <<"a">>, <<0, 0, 1>> >>, <<token_class, <<0, 1, 0>> >>}

RelativeNames == {name_not, name_has, name_haschild}

RelativeText(x, name, g) ==
    x[1] \o <<":">> \o name \o <<"(">> \o JoinWith([k \in DOMAIN g |-> g[k][1]], ",") \o <<")">>

RelativeTexts ==
    {RelativeText(x, name, g) : x \in RelativeSubjects, name \in RelativeNames,
                                g \in RelativeGroups}

InitRelative == \E t \in RelativeTexts : Start(t, TrivialDoc)

NextRelative == DoCompile

\* Compile on the texts with a relative pseudo-class
SpecRelative == InitRelative /\ [][NextRelative]_vars

InitSpecificity ==
    \/ \E t \in SpecificityTexts : Start(t, SpecificityDocument)
    \/ \E t \in GroupTexts, d \in GroupDocuments : Start(t, d)

NextSpecificity ==
    \/ DoCompile
    \/ \E n \in Nodes : DoMatchWithSpecificity(n)
    \/ \E n \in Nodes : DoMatchDetails(n)

SpecSpecificity == InitSpecificity /\ [][NextSpecificity]_vars

(***************************************************************************)
(* Properties of SpecSpecificity                                           *)
(***************************************************************************)
\* the sum of two triples, as integers
Plus(s, o) == <<s[1] + o[1], s[2] + o[2], s[3] + o[3]>>

\* the specificity CSS gives a clause
BaseSpecificity(token) ==
    CASE token = token_id -> <<1, 0, 0>>
      [] token \in {token_class, token_attr} -> <<0, 1, 0>>
      [] token \in {token_before, <<"a">>} -> <<0, 0, 1>>
      [] token \in {<<"*">>, <<>>} -> <<0, 0, 0>>

RECURSIVE SumOfClauses(_)
SumOfClauses(clauses) ==
    IF clauses = <<>> THEN <<0, 0, 0>>
    ELSE Plus(BaseSpecificity(Head(clauses)), SumOfClauses(Tail(clauses)))

SumOfShape(shape) == Plus(BaseSpecificity(shape[1]), SumOfClauses(shape[2]))

\* the specificity Compile records for the one chain of text
SpecificityOfText(text) == Compile(text).selector[1].Specificity

\* C12: an id clause counts (1,0,0), a class or attribute clause (0,1,0), a
\* type selector or pseudo-element (0,0,1), `*` nothing; the specificity of a
\* compound or chain is the component-wise sum over its clauses, so `a.a#a`
\* has (1,1,1) and `#a` > `.a` > `a`.
C12_BaseSpecificity ==
    (pc = "compiled" /\ compiled.err = "")
        => /\ \A sh \in CompoundShapes :
                sel = CompoundText(sh) => compiled.selector[1].Specificity = SumOfShape(sh)
           /\ \A l \in ChainLefts, c \in Combinators, r \in CompoundShapes :
                sel = ChainText(l, c, r)
                    => compiled.selector[1].Specificity = Plus(SumOfShape(l), SumOfShape(r))
           /\ sel = token_id => Less(SpecificityOfText(token_class), compiled.selector[1].Specificity)
           /\ sel = token_class => Less(SpecificityOfText(<<"a">>), compiled.selector[1].Specificity)

\* `a.a#a` compiled, with specificity (1,1,1)
C12_Witness ==
    /\ pc = "compiled"
    /\ sel = <<"a">> \o token_class \o token_id
    /\ compiled.err = ""
    /\ compiled.selector[1].Specificity = <<1, 1, 1>>

\* s precedes o in the lexicographic order, A first
LexBefore(s, o) ==
    \/ s[1] < o[1]
    \/ s[1] = o[1] /\ s[2] < o[2]
    \/ s[1] = o[1] /\ s[2] = o[2] /\ s[3] < o[3]

\* the chains of the group sel that match n, by their place in the group
MatchingChains(n) == {k \in DOMAIN SplitAt(sel, ",") : MatchesText(SplitAt(sel, ",")[k], n)}

\* C14: MatchWithSpecificity finds a match iff one of the chains matches the
\* node; the specificity it returns is then the lexicographic maximum over
\* the chains that match, and (0,0,0) when none does.
C14_MatchWithSpecificity ==
    pc = "matchedWithSpecificity"
        => /\ withSpecificity.found <=> MatchingChains(root) # {}
           /\ MatchingChains(root) = {} => withSpecificity.specificity = <<0, 0, 0>>
           /\ MatchingChains(root) # {}
                => \E k \in MatchingChains(root) :
                      /\ withSpecificity.specificity = SpecificityOfText(SplitAt(sel, ",")[k])
                      /\ \A j \in MatchingChains(root) :
                            ~LexBefore(withSpecificity.specificity,
                                       SpecificityOfText(SplitAt(sel, ",")[j]))

\* `#a, *, a.t1, a` at an element <a class="t1">: the id chain does not
\* match, and of the three that do `a.t1` is the most specific
C14_Witness ==
    /\ pc = "matchedWithSpecificity"
    /\ sel = <<"#", "a", ",", "*", ",", "a", ".", "t", "1", ",", "a">>
    /\ Attr(root) = KindT1.Attr
    /\ MatchingChains(root) = {2, 3, 4}
    /\ withSpecificity = [found |-> TRUE, specificity |-> <<0, 1, 1>>]

\* the pseudo-element the parser records for the compound alone
PseudoElementOfCompound(shape) == Compile(CompoundText(shape)).selector[1].PseudoElement

\* C19: the pseudo-element MatchDetails reports for a chain of two compounds
\* is the pseudo-element of the last compound: `a a::before` reports before,
\* and a chain whose last compound has none reports none.
C19_PseudoElementOfLastCompound ==
    pc = "matchedDetails"
        => \A l \in ChainLefts, c \in Combinators, r \in CompoundShapes :
              sel = ChainText(l, c, r)
                  => \A k \in DOMAIN details.details :
                        details.details[k].PseudoElement = PseudoElementOfCompound(r)

\* the Specificity() of the basic matchers
basicSpecificity(m) ==
    CASE m.kind = "tag" -> Specificity(0, 0, 1)
      [] m.kind = "class" -> Specificity(0, 1, 0)
      [] m.kind = "id" -> Specificity(1, 0, 0)
      [] m.kind = "attr" -> Specificity(0, 1, 0)

RECURSIVE SumOfMatchers(_)
\* the arithmetic sum of the specificities of the matchers of a list
SumOfMatchers(selectors) ==
    IF selectors = <<>> THEN <<0, 0, 0>>
    ELSE Plus(basicSpecificity(Head(selectors)), SumOfMatchers(Tail(selectors)))

\* C20: the specificity of a compound the parser accepts is the sum of the
\* specificities of its sub-matchers, plus (0,0,1) exactly when the compound
\* records a pseudo-element name, whatever the order of its clauses.
C20_PseudoElementPoint ==
    (pc = "compiled" /\ compiled.err = "")
        => \A sh \in CompoundShapes :
              sel = CompoundText(sh)
                  => compiled.selector[1].Specificity
                        = Plus(SumOfMatchers(compiled.selector[1].match.selectors),
                               IF compiled.selector[1].PseudoElement # NoName
                               THEN <<0, 0, 1>> ELSE <<0, 0, 0>>)

\* the clauses of a list that are not pseudo-elements
RECURSIVE WithoutPseudoElements(_)
WithoutPseudoElements(clauses) ==
    IF clauses = <<>> THEN <<>>
    ELSE (IF Head(clauses) = token_before THEN <<>> ELSE <<Head(clauses)>>)
         \o WithoutPseudoElements(Tail(clauses))

\* each compound text, whether a pseudo-element is its first clause with
\* nothing before it, and the text without its pseudo-elements
StandAloneCases ==
    {<<CompoundText(sh),
       sh[1] = <<>> /\ sh[2][1] = token_before,
       sh[1] \o Join(WithoutPseudoElements(sh[2]))>> : sh \in CompoundShapes}

\* C21: a pseudo-element is rejected as stand-alone iff it is the first
\* clause of a compound with no type selector, no `*` and no clause before
\* it; an accepted pseudo-element does not change the nodes the compound
\* matches.
C21_StandAlonePseudoElement ==
    \A cs \in StandAloneCases :
        sel = cs[1]
            => /\ pc = "compiled"
                    => compiled.err = IF cs[2] THEN "stand-alone pseudo-element not allowed"
                                      ELSE ""
               /\ pc = "matchedDetails" => (details.found <=> MatchesText(cs[3], root))

\* the greatest of the specificities of the chains of g, A first
GreatestOf(g) ==
    CHOOSE s \in {g[k][2] : k \in DOMAIN g} : \A k \in DOMAIN g : ~LexBefore(s, g[k][2])

\* each text with a relative pseudo-class, the subject's specificity, and the
\* greatest specificity of the chains of the group
RelativeCases ==
    {<<RelativeText(x, name, g), x[2], GreatestOf(g)>> :
        x \in RelativeSubjects, name \in RelativeNames, g \in RelativeGroups}

\* C25: a `:not(G)`, `:has(G)` or `:haschild(G)` clause contributes the
\* lexicographic maximum of the specificities of the chains of G:
\* `:not(#a,.a)` contributes (1,0,0) and `:not(a)` contributes (0,0,1).
C25_RelativeSpecificity ==
    pc = "compiled"
        => \A cs \in RelativeCases :
              sel = cs[1]
                  => /\ compiled.err = ""
                     /\ compiled.selector[1].Specificity = Plus(cs[2], cs[3])

\* `.a:not(.a.a,#a)` compiled with (0,1,0) + (1,0,0)
C25_Witness ==
    /\ pc = "compiled"
    /\ sel = RelativeText(<<token_class, <<0, 1, 0>> >>, name_not,
                          << <<token_class \o token_class, <<0, 2, 0>> >>,
                             <<token_id, <<1, 0, 0>> >> >>)
    /\ compiled.err = ""
    /\ compiled.selector[1].Specificity = <<1, 1, 0>>

(***************************************************************************)
(* SpecLess: Specificity.Less on three specificities                       *)
(***************************************************************************)
MaxComponent == 1

Specificities == {Specificity(a, b, c) : a, b, c \in 0..MaxComponent}

InitLess ==
    \E specificities \in [1..3 -> Specificities] :
        StartWith(<<>>, TrivialDoc, specificities, "operands")

DoLess ==
    /\ pc = "operands"
    /\ less' = [i \in 1..3 |-> [j \in 1..3 |-> Less(operands[i], operands[j])]]
    /\ pc' = "compared"
    /\ UNCHANGED <<sel, compiled, serialized, reparsed, doc, filtered, root, matched, first,
                   withSpecificity, details, operands, parser>>

NextLess == DoLess

SpecLess == InitLess /\ [][NextLess]_vars

(***************************************************************************)
(* Properties of SpecLess                                                  *)
(***************************************************************************)
\* C13: Less(s, o) iff s precedes o lexicographically (A, then B, then C);
\* Less is irreflexive and transitive, and exactly one of Less(s, o),
\* Less(o, s), s = o holds.
C13_LessIsStrictTotalOrder ==
    pc = "compared"
        => /\ \A i, j \in 1..3 : less[i][j] <=> LexBefore(operands[i], operands[j])
           /\ \A i \in 1..3 : ~less[i][i]
           /\ (less[1][2] /\ less[2][3]) => less[1][3]
           /\ \A i, j \in 1..3 :
                /\ less[i][j] \/ less[j][i] \/ operands[i] = operands[j]
                /\ ~(less[i][j] /\ less[j][i])
                /\ ~(less[i][j] /\ operands[i] = operands[j])

\* (0,1,1) before (1,0,0) before (1,0,1): A decides against B and C, then C
C13_Witness ==
    /\ pc = "compared"
    /\ operands = <<Specificity(0, 1, 1), Specificity(1, 0, 0), Specificity(1, 0, 1)>>
    /\ less[1][2] /\ less[2][3] /\ less[1][3]
    /\ ~less[2][1]

(***************************************************************************)
(* SpecClauses: parseSelector on long selectors, one turn of its loops at  *)
(* a time.                                                                 *)
(***************************************************************************)
\* the most clauses of one selector
MaxRepeat == 256

\* the clause written n times
RepeatText(token, n) ==
    [k \in 1..(n * Len(token)) |-> token[((k - 1) % Len(token)) + 1]]

\* a clause of a compound, or a combinator and a compound
RepeatTokens == {token_id, token_class, token_attr, <<" ", "a">>, <<" ", "a", ".", "a">>}

RepeatCounts == {1, 2, MaxRepeat}

InitClauses ==
    \E token \in RepeatTokens, n \in RepeatCounts :
        StartWith(RepeatText(token, n), TrivialDoc, NoOperands, "input")

Parsing(r, at) ==
    /\ parser' = r
    /\ pc' = IF r.err # "" THEN "failed" ELSE at
    /\ UNCHANGED <<sel, compiled, serialized, reparsed, doc, filtered, root, matched, first,
                   withSpecificity, details, operands, less>>

\* parseSelector up to the clause loop of its first compound
DoStart ==
    /\ pc = "input"
    /\ Parsing(simpleSelectorSequenceStart(sel, skipWhitespace(sel, 0).i), "clauses")

\* one clause of the first compound
DoClause ==
    /\ pc = "clauses"
    /\ simpleSelectorSequenceMore(sel, parser.i)
    /\ Parsing(simpleSelectorSequenceStep(sel, parser.i, parser.val), "clauses")

DoEndCompound ==
    /\ pc = "clauses"
    /\ ~simpleSelectorSequenceMore(sel, parser.i)
    /\ Parsing(simpleSelectorSequenceEnd(parser.i, parser.val), "combinators")

\* one combinator and the compound after it
DoCombinator ==
    /\ pc = "combinators"
    /\ selectorMore(sel, skipWhitespace(sel, parser.i))
    /\ Parsing(selectorStep(sel, skipWhitespace(sel, parser.i), parser.val), "combinators")

DoEndSelector ==
    /\ pc = "combinators"
    /\ ~selectorMore(sel, skipWhitespace(sel, parser.i))
    /\ Parsing(Ok(skipWhitespace(sel, parser.i).i, parser.val), "parsed")

NextClauses == DoStart \/ DoClause \/ DoEndCompound \/ DoCombinator \/ DoEndSelector

SpecClauses == InitClauses /\ [][NextClauses]_vars

\* the specificity of one token of RepeatTokens
TokenSpecificity(token) ==
    CASE token = token_id -> <<1, 0, 0>>
      [] token \in {token_class, token_attr} -> <<0, 1, 0>>
      [] token = <<" ", "a">> -> <<0, 0, 1>>
      [] token = <<" ", "a", ".", "a">> -> <<0, 1, 1>>

\* the parser is between two tokens
BetweenTokens == pc \in {"clauses", "combinators", "parsed"}

\* C18: the specificity of a compound or chain is the arithmetic sum of the
\* specificities of its clauses, however many they are, and a further
\* clause lowers no component and does not make the selector Less than it
\* was.
C18_ExactSum ==
    /\ [](BetweenTokens
            => \A token \in RepeatTokens, n \in RepeatCounts :
                  sel = RepeatText(token, n) /\ parser.i % Len(token) = 0
                      => \A k \in 1..3 :
                            parser.val.Specificity[k]
                                = (parser.i \div Len(token)) * TokenSpecificity(token)[k])
    /\ [][BetweenTokens /\ pc' \in {"clauses", "combinators"}
            => /\ \A k \in 1..3 : parser'.val.Specificity[k] >= parser.val.Specificity[k]
               /\ ~Less(parser'.val.Specificity, parser.val.Specificity)]_vars

(***************************************************************************)
(* SpecEscape: parseEscape at a backslash                                  *)
(***************************************************************************)
\* the most hex digits after the backslash
MaxDigits == 6

EscapeDigits == {"0", "4", "a", "F"}

RECURSIVE DigitRunsUpTo(_)
DigitRunsUpTo(n) ==
    IF n = 0 THEN {<<>>}
    ELSE DigitRunsUpTo(n - 1)
            \cup {Append(ds, d) : ds \in {r \in DigitRunsUpTo(n - 1) : Len(r) = n - 1},
                                  d \in EscapeDigits}

\* what follows the digits; none of them starts with a hex digit
EscapeTails ==
    {<<>>, <<" ">>, <<"\t">>, <<"\r">>, <<"\r", "\n">>, <<"\n">>, <<"\f">>, <<"g">>,
     <<" ", " ">>, <<"\r", "\n", "\n">>, <<"\\">>}

EscapePrefixes == {<<>>, <<"g">>}

EscapeText(pre, ds, tail) == pre \o <<"\\">> \o ds \o tail

InitEscape ==
    \E pre \in EscapePrefixes, ds \in DigitRunsUpTo(MaxDigits), tail \in EscapeTails :
        StartWith(EscapeText(pre, ds, tail), TrivialDoc, NoOperands, "input")

\* parseEscape with the parser at the backslash
DoParseEscape ==
    /\ pc = "input"
    /\ \E pi \in 0..(Len(sel) - 1) :
          /\ sel[pi + 1] = "\\"
          /\ \A k \in 1..pi : sel[k] # "\\"
          /\ Parsing(parseEscape(sel, pi), "escaped")

NextEscape == DoParseEscape

SpecEscape == InitEscape /\ [][NextEscape]_vars

\* the number a run of EscapeDigits writes in base 16
RECURSIVE HexNumber(_)
HexNumber(ds) ==
    IF ds = <<>> THEN 0
    ELSE 16 * HexNumber(SubSeq(ds, 1, Len(ds) - 1))
            + (CASE ds[Len(ds)] = "0" -> 0
                 [] ds[Len(ds)] = "4" -> 4
                 [] ds[Len(ds)] = "a" -> 10
                 [] ds[Len(ds)] = "F" -> 15)

\* the length of the one separator at the head of rest: CR LF is one
SeparatorLength(rest) ==
    IF Len(rest) >= 2 /\ rest[1] = "\r" /\ rest[2] = "\n" THEN 2
    ELSE IF Len(rest) >= 1 /\ rest[1] \in {" ", "\t", "\r", "\n", "\f"} THEN 1
    ELSE 0

\* what the escape of a shape is to give: error or not, position, text
EscapeOutcome(pre, ds, tail) ==
    IF ds # <<>>
    THEN LET m == IF Len(ds) > 6 THEN 6 ELSE Len(ds)
         IN  <<FALSE,
               Len(pre) + 1 + m + SeparatorLength(SubSeq(ds, m + 1, Len(ds)) \o tail),
               <<runeString(HexNumber(SubSeq(ds, 1, m)))>> >>
    ELSE IF tail = <<>> \/ tail[1] \in {"\r", "\n", "\f"} THEN <<TRUE, 0, <<>> >>
    ELSE <<FALSE, Len(pre) + 2, <<tail[1]>> >>

\* the place of the first backslash of sel, and the hex digits after it
BackslashAt == CHOOSE pi \in 0..(Len(sel) - 1) : sel[pi + 1] = "\\" /\ \A k \in 1..pi : sel[k] # "\\"

DigitsAfter(pi) ==
    Max({n \in 0..(Len(sel) - pi - 1) : \A k \in 1..n : sel[pi + 1 + k] \in EscapeDigits})

\* the outcome for sel, taken apart into its prefix, digits and tail
ExpectedEscape ==
    LET pi == BackslashAt
        n == DigitsAfter(pi)
    IN  EscapeOutcome(SubSeq(sel, 1, pi), SubSeq(sel, pi + 2, pi + 1 + n),
                      SubSeq(sel, pi + 2 + n, Len(sel)))

\* C22: at a backslash followed by 1 to 6 hex digits parseEscape returns the
\* code point all of those digits write and moves past them and at most one
\* whitespace separator (CR LF is one); followed by another character that
\* is no line terminator it returns that character and moves by 2; followed
\* by a line terminator or by nothing it returns an error.
C22_ParseEscape ==
    pc \in {"escaped", "failed"}
        => IF ExpectedEscape[1] THEN parser.err # ""
           ELSE /\ parser.err = ""
                /\ parser.i = ExpectedEscape[2]
                /\ parser.val = ExpectedEscape[3]

(***************************************************************************)
(* SpecNth: parseNth on an argument followed by `)`                        *)
(***************************************************************************)
\* the longest argument drawn from NthAlphabet
MaxArgument == 5

NthAlphabet == {"n", "1", "2", "+", "-", " ", "x"}

RECURSIVE ArgumentsUpTo(_)
ArgumentsUpTo(n) ==
    IF n = 0 THEN {<<>>}
    ELSE ArgumentsUpTo(n - 1)
            \cup {Append(arg, c) : arg \in {r \in ArgumentsUpTo(n - 1) : Len(r) = n - 1},
                                   c \in NthAlphabet}

\* the keywords in several cases, names that are no keyword, the marker N
NthWords ==
    {<<"o", "d", "d">>, <<"O", "D", "D">>, <<"o", "D", "d">>, <<"e", "v", "e", "n">>,
     <<"E", "V", "E", "N">>, <<"E", "v", "e", "n">>, <<"o", "d">>, <<"o", "d", "d", "s">>,
     <<"e", "v", "e", "n", "1">>, <<"e">>, <<"o">>, <<"d", "d">>, <<"N">>, <<"-", "N">>,
     <<"2", "N", "+", "1">>, <<"1", "2", "N", " ", "-", " ", "2", "1">>}

\* no whitespace stands at either end of an argument
InitNth ==
    \E arg \in {a \in ArgumentsUpTo(MaxArgument) \cup NthWords :
                    a = <<>> \/ (a[1] # " " /\ a[Len(a)] # " ")} :
        StartWith(arg \o <<")">>, TrivialDoc, NoOperands, "input")

DoParseNth ==
    /\ pc = "input"
    /\ Parsing(parseNth(sel, 0), "nth")

NextNth == DoParseNth

SpecNth == InitNth /\ [][NextNth]_vars

\* the decimal number a run of digits writes
RECURSIVE Decimal(_)
Decimal(ds) ==
    IF ds = <<>> THEN 0
    ELSE 10 * Decimal(SubSeq(ds, 1, Len(ds) - 1))
            + (CHOOSE d \in 0..9 : Digits[d + 1] = ds[Len(ds)])

AllDigits(ds) == ds # <<>> /\ \A k \in DOMAIN ds : ds[k] \in Range(Digits)

\* the text after the leading spaces of t
RECURSIVE TrimLeft(_)
TrimLeft(t) == IF t # <<>> /\ t[1] = " " THEN TrimLeft(Tail(t)) ELSE t

NoNth == <<FALSE, 0, 0>>

\* what follows the marker: nothing, or a sign and an integer, with optional
\* whitespace before and after the sign
NthOffset(a, rest) ==
    IF rest = <<>> THEN <<TRUE, a, 0>>
    ELSE LET t == TrimLeft(rest)
         IN  IF t # <<>> /\ t[1] \in {"+", "-"} /\ AllDigits(TrimLeft(Tail(t)))
             THEN <<TRUE, a, (IF t[1] = "-" THEN -1 ELSE 1) * Decimal(TrimLeft(Tail(t)))>>
             ELSE NoNth

\* after the optional sign: an integer, a marker, or an integer and a marker
NthUnsigned(sign, t) ==
    LET n == Max({k \in 0..Len(t) : \A j \in 1..k : t[j] \in Range(Digits)})
        ds == SubSeq(t, 1, n)
        rest == SubSeq(t, n + 1, Len(t))
    IN  IF rest = <<>> THEN (IF n > 0 THEN <<TRUE, 0, sign * Decimal(ds)>> ELSE NoNth)
        ELSE IF rest[1] \in {"n", "N"}
        THEN NthOffset(IF n > 0 THEN sign * Decimal(ds) ELSE sign, Tail(rest))
        ELSE NoNth

\* the (a, b) an argument denotes: <<TRUE, a, b>>, or NoNth if it denotes none
NthOf(arg) ==
    IF toLowerASCII(arg) = <<"o", "d", "d">> THEN <<TRUE, 2, 1>>
    ELSE IF toLowerASCII(arg) = <<"e", "v", "e", "n">> THEN <<TRUE, 2, 0>>
    ELSE IF arg # <<>> /\ arg[1] = "-" THEN NthUnsigned(-1, Tail(arg))
    ELSE IF arg # <<>> /\ arg[1] = "+" THEN NthUnsigned(1, Tail(arg))
    ELSE NthUnsigned(1, arg)

\* the argument of the state: sel without its closing parenthesis
Argument == SubSeq(sel, 1, Len(sel) - 1)

\* the argument denotes (a, b) and parseNth returned it
NthReturned ==
    /\ parser.err = ""
    /\ parser.val = <<NthOf(Argument)[2], NthOf(Argument)[3]>>

MaxParenthesized == 5

ParenthesisAlphabet == {"(", ")", " ", "/", "*"}

RECURSIVE ParenthesizedUpTo(_)
ParenthesizedUpTo(n) ==
    IF n = 0 THEN {<<>>}
    ELSE ParenthesizedUpTo(n - 1)
            \cup {Append(t, c) : t \in {r \in ParenthesizedUpTo(n - 1) : Len(r) = n - 1},
                                 c \in ParenthesisAlphabet}

InitParenthesis ==
    \E t \in ParenthesizedUpTo(MaxParenthesized) :
        StartWith(t, TrivialDoc, NoOperands, "input")

\* the parser has read the first pi characters
DoSeek(pi) ==
    /\ pc = "input"
    /\ pi <= Len(sel)
    /\ Parsing(Ok(pi, FALSE), "at")

DoConsumeParenthesis ==
    /\ pc = "at"
    /\ Parsing(consumeParenthesis(sel, parser.i), "opened")

DoConsumeClosingParenthesis ==
    /\ pc = "at"
    /\ Parsing(consumeClosingParenthesis(sel, parser.i), "closed")

NextParenthesis ==
    \/ \E pi \in 0..1 : DoSeek(pi)
    \/ DoConsumeParenthesis
    \/ DoConsumeClosingParenthesis

SpecParenthesis == InitParenthesis /\ [][NextParenthesis]_vars

\* t is made of whitespace and terminated comments only
RECURSIVE Blank(_)
Blank(t) ==
    \/ t = <<>>
    \/ t[1] \in WhiteSpace /\ Blank(Tail(t))
    \/ /\ Len(t) >= 4 /\ t[1] = "/" /\ t[2] = "*"
       /\ \E j \in 3..(Len(t) - 1) :
             /\ t[j] = "*" /\ t[j + 1] = "/"
             /\ \A k \in 3..(j - 1) : ~(t[k] = "*" /\ t[k + 1] = "/")
             /\ Blank(SubSeq(t, j + 2, Len(t)))

\* C26: consumeParenthesis and consumeClosingParenthesis leave the position
\* where it was whenever they return false, also after whitespace or
\* comments were skipped in search of `)`; when they return true the
\* position is past the parenthesis, and for `(` past the whitespace after
\* it.
C26_ParenthesisFrame ==
    [][pc = "at" /\ pc' \in {"opened", "closed"}
         => /\ ~parser'.val => parser'.i = parser.i
            /\ (pc' = "opened" /\ parser'.val)
                  => /\ sel[parser.i + 1] = "("
                     /\ parser'.i > parser.i
                     /\ Blank(SubSeq(sel, parser.i + 2, parser'.i))
                     /\ parser'.i < Len(sel) => sel[parser'.i + 1] \notin WhiteSpace
            /\ (pc' = "closed" /\ parser'.val)
                  => /\ parser'.i > parser.i
                     /\ sel[parser'.i] = ")"
                     /\ Blank(SubSeq(sel, parser.i + 1, parser'.i - 1))
            /\ (pc' = "opened" /\ ~parser'.val) => (parser.i >= Len(sel) \/ sel[parser.i + 1] # "(")
            /\ (pc' = "closed" /\ ~parser'.val)
                  => ~\E j \in (parser.i + 1)..Len(sel) :
                        sel[j] = ")" /\ Blank(SubSeq(sel, parser.i + 1, j - 1))]_vars

\* consumeClosingParenthesis at 1 in `( /(` skipped the space, found no `)`
\* and returned false with the parser at 1
C26_Witness ==
    /\ pc = "closed"
    /\ sel = <<"(", " ", "/", "(">>
    /\ ~parser.val
    /\ parser.i = 1

(***************************************************************************)
(* SpecFixed: the positional pseudo-classes with a = 0                     *)
(***************************************************************************)
FixedOffsets == (0 - 1)..(MaxKids + 1)

\* the text of b alone: 2, +2, -1
FixedArguments(b) ==
    IF b < 0 THEN {<<"-">> \o DigitText(0 - b)}
    ELSE {DigitText(b), <<"+">> \o DigitText(b)}

FixedText(name, arg) == <<":">> \o name \o <<"(">> \o arg \o <<")">>

InitFixed ==
    \E name \in NthNames, b \in FixedOffsets, d \in NthDocuments :
        \E arg \in FixedArguments(b) : Start(FixedText(name, arg), d)

NextFixed == DoCompile \/ DoFilter

SpecFixed == InitFixed /\ [][NextFixed]_vars

\* the fixed-position selector in the state: what Filter returned is what
\* nthChildMatch with a = 0 returns, and it is `holds` for the nodes in scope
FixedAgrees(scope, holds(_, _, _, _)) ==
    pc = "filtered"
        => \A name \in NthNames, b \in FixedOffsets :
              sel \in {FixedText(name, arg) : arg \in FixedArguments(b)}
                  => /\ \A n \in Nodes :
                          (n \in RangeOf(filtered))
                              <=> nthChildMatch(0, b, IsLast(name), IsOfType(name), n)
                     /\ \A n \in scope :
                          (n \in RangeOf(filtered))
                              <=> holds(n, b, IsLast(name), IsOfType(name))

IsNthElementChild(n, b, last, ofType) ==
    /\ Type(n) = ElementNode
    /\ Parent(n) # Nil
    /\ Position(n, last, ofType) = b

\* C27 as stated: for a = 0 the fixed-position matchers return what
\* nthChildMatch(0, b, last, ofType, n) returns for every b, last, ofType and
\* node n, namely true iff n is the b-th element child of its parent (of its
\* tag when ofType), from the front or from the back.
C27_FixedPosition ==
    FixedAgrees(Nodes, IsNthElementChild)

\* C27, amended: the two agree on every node, and they are true iff n is the
\* b-th element child of a parent that is not the document node.
C27_FixedPositionElementParent ==
    FixedAgrees(Nodes, LAMBDA n, b, last, ofType :
                           /\ IsNthElementChild(n, b, last, ofType)
                           /\ Type(Parent(n)) # DocumentNode)

\* `:nth-last-of-type(1)` among the children of an element: a match that is
\* the last of its tag but not the last child
C27_Witness ==
    /\ pc = "filtered"
    /\ sel = FixedText(name_nth_last_of_type, <<"1">>)
    /\ Type(1) = ElementNode
    /\ \E n \in RangeOf(filtered) :
            /\ Position(n, TRUE, TRUE) = 1
            /\ Position(n, TRUE, FALSE) = 2

(***************************************************************************)
(* SpecPseudoElement: parsePseudoclassSelector on the names of the table   *)
(* of pseudo-elements, of the parser's switch, and on names next to them   *)
(***************************************************************************)
\* a table name, a name of the switch, one of them with a letter more or a
\* letter less, or in capitals
NearNames(names) ==
    names \cup {Append(n, "x") : n \in names}
          \cup {SubSeq(n, 1, Len(n) - 1) : n \in names}
          \cup {<<"B", "e", "f", "o", "r", "e">>, <<"C", "U", "E">>}

PseudoSubjects == {<<>>, <<"a">>, token_class, token_id}

InitPseudoElement ==
    \E x \in PseudoSubjects, colons \in {<<":">>, <<":", ":">>},
       name \in NearNames(SupportedPseudoElements \cup PseudoElementCases) :
        StartWith(x \o colons \o name, TrivialDoc, NoOperands, "input")

\* parsePseudoclassSelector with the parser at the first colon
DoParsePseudoclass ==
    /\ pc = "input"
    /\ \E pi \in 0..(Len(sel) - 1) :
          /\ sel[pi + 1] = ":"
          /\ \A k \in 1..pi : sel[k] # ":"
          /\ Parsing(parsePseudoclassSelector(sel, pi), "pseudo")

NextPseudoElement == DoParsePseudoclass

SpecPseudoElement == InitPseudoElement /\ [][NextPseudoElement]_vars

\* the name after the colons of the text
WrittenName ==
    SubSeq(sel, 1 + CHOOSE k \in DOMAIN sel : sel[k] = ":" /\ \A j \in (k + 1)..Len(sel) : sel[j] # ":",
           Len(sel))

\* C29: parsePseudoclassSelector accepts a name as a pseudo-element, with
\* specificity (0,0,1), exactly when the name is a key of
\* SupportedPseudoElements; every other unknown name is an unknown
\* pseudo-class error.
C29_TableAndParserAgree ==
    pc \in {"pseudo", "failed"}
        => IF toLowerASCII(WrittenName) \in SupportedPseudoElements
           THEN /\ parser.err = ""
                /\ parser.val.match = NilMatch
                /\ parser.val.PseudoElement = toLowerASCII(WrittenName)
                /\ parser.val.Specificity = Specificity(0, 0, 1)
           ELSE parser.err = "unknown pseudoclass or pseudoelement"

(***************************************************************************)
(* SpecTerminates: Compile on short texts, one turn of the clause loop,    *)
(* the combinator loop and the comma loop at a time                        *)
(***************************************************************************)
\* the most characters after the head of a text
MaxInput == 3

InputAlphabet == {"a", ".", " ", ",", ":", ")", "*", "/", "'"}

InputHeads ==
    {<<>>, <<":">> \o name_not \o <<"(">>, <<"a", "/", "*">>, <<"[", "a", "=", "'">>, <<"a", ">">>}

RECURSIVE InputsUpTo(_)
InputsUpTo(n) ==
    IF n = 0 THEN {<<>>}
    ELSE InputsUpTo(n - 1)
            \cup {Append(t, c) : t \in {r \in InputsUpTo(n - 1) : Len(r) = n - 1},
                                 c \in InputAlphabet}

InitTerminates ==
    \E h \in InputHeads, t \in InputsUpTo(MaxInput) :
        StartWith(h \o t, TrivialDoc, NoOperands, "input")

\* the comma loop of parseSelectorGroup goes on: parseSelector after the
\* comma, up to the clause loop of its first compound
DoComma ==
    /\ pc = "parsed"
    /\ parser.i < Len(sel)
    /\ sel[parser.i + 1] = ","
    /\ Parsing(simpleSelectorSequenceStart(sel, skipWhitespace(sel, parser.i + 1).i), "clauses")

\* parseSelectorGroup returns to Compile
DoReturn ==
    /\ pc = "parsed"
    /\ ~(parser.i < Len(sel) /\ sel[parser.i + 1] = ",")
    /\ Parsing(parser, "done")

NextTerminates ==
    \/ DoStart
    \/ DoClause
    \/ DoEndCompound
    \/ DoCombinator
    \/ DoEndSelector
    \/ DoComma
    \/ DoReturn

SpecTerminates == InitTerminates /\ [][NextTerminates]_vars

\* a turn of the clause loop, of the combinator loop or of the comma loop
\* that stays in the loop
LoopTurn ==
    \/ pc = "clauses" /\ pc' = "clauses"
    \/ pc = "combinators" /\ pc' = "combinators"
    \/ pc = "parsed" /\ pc' = "clauses"

\* where Compile is: before parseSelector, in the clause loop, in the
\* combinator loop, in the comma loop, returned
Rank ==
    CASE pc = "input" -> 5
      [] pc = "clauses" -> 4
      [] pc = "combinators" -> 3
      [] pc = "parsed" -> 2
      [] pc \in {"done", "failed"} -> 0

\* what is left of the text, then what is left to do at this position
Variant == (Len(sel) - parser.i) * 6 + Rank

\* every turn of a loop moves the position forward, the position never
\* passes len(s), and every step of Compile lowers Variant, a natural
\* number: Compile takes finitely many steps and stops only where it returns
Progress ==
    /\ [][LoopTurn => parser'.i > parser.i]_vars
    /\ [][Variant' < Variant]_vars
    /\ [](parser.i <= Len(sel) /\ Variant \in Nat)
    /\ [](pc \in {"input", "clauses", "combinators", "parsed", "done", "failed"})

\* C30 as stated: every turn of a parser loop moves the position forward or
\* leaves the loop, the position never passes len(s), and Compile ends with
\* a selector or an error.
C30_EndsWithResult ==
    /\ Progress
    /\ [](pc = "failed" => parser.err # PANIC)

\* apart from that panic Compile ends with a selector or with an error
EndsWithResultOrPanic ==
    /\ Progress
    /\ [](pc = "failed" => parser.err # "")
    /\ [](pc = "done" => parser.err = "")

====
